---------------------------- MODULE Spec2Model ----------------------------
(***************************************************************************)
(* TB2dic / RETRO NPC Dialog Mapper.                                       *)
(*                                                                         *)
(* The repository holds two variants of the program:                       *)
(*   "fixed"  src/npc_dialog_mapper_gui_fixed.pyw                          *)
(*   "orig"   src/npc_dialog_mapper_gui.pyw                                *)
(* Both define NPCDialogMapper with the same pipeline (load_data, then     *)
(* _generate_html_content).  The variable `variant` says which of the two  *)
(* files is running; every action is translated from the code of that     *)
(* file.                                                                   *)
(*                                                                         *)
(* Specifications:                                                         *)
(*   SpecRender  _build_relationships and the HTML rendering               *)
(*   FairTree    the fixed renderer on one dialog, run to its end          *)
(*   SpecMeta    _match_metadata_with_npcs, run twice on the same input    *)
(*   SpecXliff   XLIFF mode: translations, structure, merge                *)
(*   SpecJson    JSON mode: the four record loaders of load_data           *)
(***************************************************************************)
EXTENDS Integers, Sequences, FiniteSets, TLC

VARIABLES
    variant,      \* "fixed" | "orig": which source file runs
    pc,           \* position of the running pipeline
    raised,       \* TRUE once an exception escaped to the caller
    \* ---- the loaded dataset (NPCDialogMapper fields) ----
    npcs,         \* self.npcs: npc_id -> [name_fr, dialogs, genders, img_urls]
    npcOrder,     \* insertion order of the keys of self.npcs
    messages,     \* self.messages: message_id -> [replies] (reply ids, in list order)
    replies,      \* self.replies as a sequence in insertion order
    dialogs,      \* self.dialogs
    metadata,     \* self.metadata
    \* ---- rendering ----
    npcQueue,     \* NPCs still to be visited by the card loop (already sorted)
    curNpc,       \* the NPC whose card is being generated (0: none)
    dlgIdx,       \* index into curNpc's dialog list
    stack,        \* call stack of _generate_dialog_tree
    out,          \* the nodes emitted so far, in document order
    \* ---- metadata matching, two runs ----
    run,          \* the run of the program that is executing (1 or 2)
    html1,        \* what the first run rendered for the NPC cards
    \* ---- XLIFF mode ----
    xliffFiles,   \* the translation files still to be read, in dict order
    xliffDone,    \* the translation files already read, in the order read
    xliff_translations, \* self.xliff_translations
    reply_relationships,\* self._reply_relationships (reply_id -> links)
    structFile,   \* the structural reply file (records)
    \* ---- JSON mode ----
    files,        \* entity type -> [present, records]: the data file and its raw records
    \* ---- the page's script (search, filters, navigation) ----
    dom,          \* the document: its cards, dialogs, messages and replies
    hidden,       \* the nodes that carry the class `hidden`
    searchMatches,      \* let searchMatches: the cards of the last search, in order
    currentMatchIndex,  \* let currentMatchIndex
    currentSearchState, \* the settings performSearch last read from the controls
    currentMatch,       \* the cards that carry the class `current-match`
    nav,                \* matchCounter, floatingNav and the two navigation buttons
    \* ---- the generation worker of the GUI ----
    env,          \* what the worker finds: data source, files, output folder, faults
    gui,          \* the worker's position and what the user sees of it
    \* ---- generation runs side by side ----
    sys_stdout,   \* sys.stdout: Console, or the buffer of the run with that number
    threads       \* the started run_generation threads: position and old_stdout

renderVars == <<npcQueue, curNpc, dlgIdx, stack, out>>
dataVars   == <<npcs, npcOrder, messages, replies, dialogs, metadata>>
metaVars   == <<run, html1>>
xliffVars  == <<xliffFiles, xliffDone, xliff_translations, reply_relationships, structFile>>
jsonVars   == <<files>>
searchVars == <<dom, hidden, searchMatches, currentMatchIndex, currentSearchState,
                currentMatch, nav>>
workerVars == <<env, gui>>
threadVars == <<sys_stdout, threads>>
vars == <<variant, pc, raised, dataVars, renderVars, metaVars, xliffVars, jsonVars,
          searchVars, workerVars, threadVars>>

\* the stream sys.stdout is bound to when the program starts
Console == 0

-----------------------------------------------------------------------------
(* Bounds of the model *)

\* number of reply records in the reply file
NumReplies == 2
\* longest chain of messages, each reached through a reply of the one before
ChainLen == 9
\* deepest call stack of _generate_dialog_tree the model follows
MaxStack == 11

\* Python's None, for Optional[int] fields
None == -1

\* message ids that are loaded; 0 is a legal externally supplied id
MsgIds == {0, 1, 2}
\* an id no message carries (a dangling reference)
DanglingMsg == CHOOSE i \in 0..Cardinality(MsgIds) : i \notin MsgIds
NpcIds == {1, 2}
DialogIdx == {1, 2}

-----------------------------------------------------------------------------
(* Strings: a str is a sequence of characters; ord() of the alphabet *)

Chars == {" ", "A", "B", "a", "b"}

ord(c) == CASE c = " " -> 32
            [] c = "A" -> 65
            [] c = "B" -> 66
            [] c = "a" -> 97
            [] c = "b" -> 98

\* str.lower()
lowerChar(c) == CASE c = "A" -> "a"
                  [] c = "B" -> "b"
                  [] OTHER -> c
lower(s) == [i \in 1..Len(s) |-> lowerChar(s[i])]

\* str.strip(): drop leading and trailing whitespace
RECURSIVE lstrip(_)
lstrip(s) == IF s # <<>> /\ Head(s) = " " THEN lstrip(Tail(s)) ELSE s
RECURSIVE rstrip(_)
rstrip(s) == IF s # <<>> /\ s[Len(s)] = " " THEN rstrip(SubSeq(s, 1, Len(s) - 1)) ELSE s
strip(s) == rstrip(lstrip(s))

\* Python's str comparison: lexicographic by code point
RECURSIVE StrLess(_, _)
StrLess(s, t) ==
    IF t = <<>> THEN FALSE
    ELSE IF s = <<>> THEN TRUE
    ELSE IF ord(Head(s)) # ord(Head(t)) THEN ord(Head(s)) < ord(Head(t))
    ELSE StrLess(Tail(s), Tail(t))

-----------------------------------------------------------------------------
(* list.sort / sorted: stable insertion of each element after the last     *)
(* element that is not greater                                             *)

RECURSIVE InsertSorted(_, _, _)
\* insert x into the sorted sequence s, after every element that is not greater;
\* lt is the set of pairs <<a, b>> with key(a) < key(b)
InsertSorted(x, s, lt) ==
    IF s = <<>> THEN <<x>>
    ELSE IF <<x, Head(s)>> \in lt THEN <<x>> \o s
    ELSE <<Head(s)>> \o InsertSorted(x, Tail(s), lt)

RECURSIVE StableSort(_, _)
StableSort(s, lt) ==
    IF s = <<>> THEN <<>>
    ELSE InsertSorted(s[Len(s)], StableSort(SubSeq(s, 1, Len(s) - 1), lt), lt)

Range(s) == {s[i] : i \in 1..Len(s)}

-----------------------------------------------------------------------------
(* The dataset the rendering starts from: what load_data has put into the  *)
(* mapper before _build_relationships runs                                 *)

\* reply ids fall with the position in the file, so that insertion order and
\* reply_id order differ
ReplyIdAt(i) == 10 + NumReplies - i
DialogIdAt(i) == 100 + i

\* a reply record of the reply file, after normalisation; the replies after
\* the second all hang below message 1 and lead nowhere or back to a message
\* of the cycle
ReplyRecords(i) ==
    [reply_id : {ReplyIdAt(i)},
     parent_message_id : IF i <= 2 THEN MsgIds ELSE {1},
     leads_to_message_id : IF i <= 2 THEN MsgIds \cup {DanglingMsg, None} ELSE {1, None}]

\* a dialog record of the dialog file: the first dialog belongs to NPC 1 and
\* has check_order 0 or 1, the second to either NPC and has check_order 0
DialogRecords(i) ==
    [dialog_id : {DialogIdAt(i)},
     npc_id : IF i = 1 THEN {1} ELSE NpcIds,
     message_id : MsgIds \cup {DanglingMsg},
     check_order : IF i = 1 THEN {0, 1} ELSE {0}]

\* sequences of length n whose i-th element is drawn from recs(i)
SeqsOf(n, recs(_)) ==
    {s \in [1..n -> UNION {recs(i) : i \in 1..n}] : \A i \in 1..n : s[i] \in recs(i)}

NewNPC(name) == [name_fr |-> name, dialogs |-> <<>>, genders |-> <<>>, img_urls |-> <<>>]
NewMessage == [replies |-> <<>>]

\* the two NPCs of the rendering runs: "a" sorts before "B" once lower-cased,
\* after it by code point
RenderNpcName(n) == IF n = 1 THEN <<"a">> ELSE <<"B">>

-----------------------------------------------------------------------------
(* _build_relationships *)

AppendDialogs(ns, ds) ==
    [n \in DOMAIN ns |->
        [ns[n] EXCEPT !.dialogs = @ \o SelectSeq(ds, LAMBDA d : d.npc_id = n)]]

CheckOrderLt(ds) == {<<a, b>> \in Range(ds) \X Range(ds) : a.check_order < b.check_order}

\* the dialogs left in the order of the file
SortDialogs_FileOrder(ds) == ds

\* fixed: npc.dialogs.sort(key=lambda d: d.check_order); orig does not sort here
SortDialogs(ds) == IF variant = "fixed" THEN StableSort(ds, CheckOrderLt(ds)) ELSE ds

\* each reply put in front of the list instead of at its end
AppendReplies_Prepend(ms, rs) ==
    [m \in DOMAIN ms |->
        [ms[m] EXCEPT !.replies =
            LET own == SelectSeq(rs, LAMBDA r : r.parent_message_id = m)
            IN [i \in 1..Len(own) |-> own[Len(own) + 1 - i]] \o @]]

AppendReplies(ms, rs) ==
    [m \in DOMAIN ms |->
        [ms[m] EXCEPT !.replies = @ \o SelectSeq(rs, LAMBDA r : r.parent_message_id = m)]]

BuildRelationships ==
    /\ pc = "build"
    /\ npcs' = [n \in DOMAIN npcs |->
                  [AppendDialogs(npcs, dialogs)[n] EXCEPT !.dialogs = SortDialogs(@)]]
    /\ messages' = AppendReplies(messages, replies)
    /\ pc' = "html"
    /\ UNCHANGED <<variant, raised, npcOrder, replies, dialogs, metadata,
                   renderVars, metaVars, xliffVars, jsonVars,
                   searchVars, workerVars, threadVars>>

-----------------------------------------------------------------------------
(* Rendering.  `out` is the document as the sequence of its nodes in        *)
(* document order; `parent` is the index of the enclosing node (0: top      *)
(* level).  Kinds: "card", "dialog", "message", "reply", "ref".             *)

\* max_level = 15: maximum visual indentation level
max_level == 15

\* no cap: the indentation grows with the level
Min_Uncapped(a, b) == a

Min(a, b) == IF a < b THEN a ELSE b

\* depth: data-depth; vis: the class depth-{visual_level}; badge: whether the
\* span depth-badge is emitted (`if level > max_level`)
\* the data-* attributes of an emitted element, as pairs <<name, value>>: the
\* message and the reply elements carry their id and data-depth, the card its
\* data-npc-id; the dialog container and the reference marker carry none, and
\* npc_dialog_mapper_gui.pyw emits no data-* attribute at all
Attributes(kind, id, depth) ==
    IF variant = "orig" THEN {}
    ELSE CASE kind = "message" -> {<<"data-message-id", id>>, <<"data-depth", depth>>}
           [] kind = "reply" -> {<<"data-reply-id", id>>, <<"data-depth", depth>>}
           [] kind = "card" -> {<<"data-npc-id", id>>}
           [] OTHER -> {}

\* the message id written after the arrow in the header of a reply
\* (`if reply.leads_to_message_id`), None when the header has no arrow
HeaderArrow(kind, leads) ==
    IF kind = "reply" /\ leads # None /\ leads # 0 THEN leads ELSE None

Node(kind, id, depth, parent, leads) ==
    [kind |-> kind, id |-> id, depth |-> depth, vis |-> Min(depth, max_level),
     badge |-> depth > max_level, parent |-> parent, leads |-> leads,
     attrs |-> Attributes(kind, id, depth), arrow |-> HeaderArrow(kind, leads)]

\* sorted(self.npcs.values(), key=...): fixed sorts by name_fr.lower(), orig by name_fr
NpcSortKey(n) == IF variant = "fixed" THEN lower(npcs[n].name_fr) ELSE npcs[n].name_fr
NpcLt == {<<a, b>> \in (DOMAIN npcs) \X (DOMAIN npcs) : StrLess(NpcSortKey(a), NpcSortKey(b))}
SortedNpcs == StableSort(npcOrder, NpcLt)

GenerateHtmlStart ==
    /\ pc = "html"
    /\ npcQueue' = SortedNpcs
    /\ pc' = "cards"
    /\ UNCHANGED <<variant, raised, dataVars, curNpc, dlgIdx, stack, out,
                   metaVars, xliffVars, jsonVars,
                   searchVars, workerVars, threadVars>>

\* `if not npc.dialogs: continue`
HasDialogs(n) == npcs[n].dialogs # <<>>

CardSkip ==
    /\ pc = "cards"
    /\ npcQueue # <<>>
    /\ ~HasDialogs(Head(npcQueue))
    /\ npcQueue' = Tail(npcQueue)
    /\ UNCHANGED <<variant, pc, raised, dataVars, curNpc, dlgIdx, stack, out,
                   metaVars, xliffVars, jsonVars,
                   searchVars, workerVars, threadVars>>

CardStart ==
    /\ pc = "cards"
    /\ npcQueue # <<>>
    /\ HasDialogs(Head(npcQueue))
    /\ curNpc' = Head(npcQueue)
    /\ npcQueue' = Tail(npcQueue)
    /\ dlgIdx' = 1
    /\ out' = Append(out, Node("card", Head(npcQueue), 0, 0, None))
    /\ pc' = "dialogs"
    /\ UNCHANGED <<variant, raised, dataVars, stack, metaVars, xliffVars, jsonVars,
                   searchVars, workerVars, threadVars>>

\* the node of the card being generated
CardNode == CHOOSE i \in 1..Len(out) :
                /\ out[i].kind = "card"
                /\ \A j \in (i + 1)..Len(out) : out[j].kind # "card"

\* the dialogs the card loop walks: fixed walks npc.dialogs as it is,
\* orig walks sorted(npc.dialogs, key=lambda x: x.check_order)
CardDialogs(n) ==
    IF variant = "fixed" THEN npcs[n].dialogs
    ELSE StableSort(npcs[n].dialogs, CheckOrderLt(npcs[n].dialogs))

\* the membership test left out: every dialog is taken to have its entry message
DialogResolves_Always(d) == TRUE

\* `if dialog.message_id in self.messages`
DialogResolves(d) == d.message_id \in DOMAIN messages

DialogSkip ==
    /\ pc = "dialogs"
    /\ dlgIdx <= Len(CardDialogs(curNpc))
    /\ ~DialogResolves(CardDialogs(curNpc)[dlgIdx])
    /\ dlgIdx' = dlgIdx + 1
    /\ UNCHANGED <<variant, pc, raised, dataVars, npcQueue, curNpc, stack, out,
                   metaVars, xliffVars, jsonVars,
                   searchVars, workerVars, threadVars>>

\* the continuation message entered at the level of the reply that leads to it
Frame_ReplyLevel(m, level, visited, parent) ==
    [message_id |-> m, level |-> IF level = 0 THEN 0 ELSE level - 1, visited |-> visited,
     stage |-> "enter", ri |-> 1, node |-> 0, parent |-> parent]

Frame(m, level, visited, parent) ==
    [message_id |-> m, level |-> level, visited |-> visited, stage |-> "enter",
     ri |-> 1, node |-> 0, parent |-> parent]

\* fixed: message = self.messages[dialog.message_id]; the call
\* _generate_dialog_tree(message, dialog, level=0) with visited = None -> set()
DialogStart ==
    /\ pc = "dialogs"
    /\ variant = "fixed"
    /\ dlgIdx <= Len(CardDialogs(curNpc))
    /\ LET d == CardDialogs(curNpc)[dlgIdx] IN
        /\ DialogResolves(d)
        /\ IF d.message_id \in DOMAIN messages
           THEN /\ out' = Append(out, Node("dialog", d.dialog_id, 0, CardNode, None))
                /\ stack' = <<Frame(d.message_id, 0, {}, Len(out) + 1)>>
                /\ pc' = "tree"
                /\ UNCHANGED raised
           ELSE \* KeyError from self.messages[...]
                /\ raised' = TRUE
                /\ pc' = "error"
                /\ UNCHANGED <<out, stack>>
    /\ UNCHANGED <<variant, dataVars, npcQueue, curNpc, dlgIdx, metaVars, xliffVars, jsonVars,
                   searchVars, workerVars, threadVars>>

\* the cycle check left out: no message is ever recognised as visited
OnPath_Never(visited, m) == FALSE

\* one set shared by all branches and never reduced: a message counts as
\* visited once it was rendered anywhere
OnPath_Rendered(visited, m) ==
    \E i \in 1..Len(out) : out[i].kind = "message" /\ out[i].id = m

\* `if message.message_id in visited`
OnPath(visited, m) == m \in visited

\* leaving the outermost call returns to the dialog loop of the card
Return ==
    /\ stack' = SubSeq(stack, 1, Len(stack) - 1)
    /\ IF Len(stack) = 1
       THEN pc' = "dialogs" /\ dlgIdx' = dlgIdx + 1
       ELSE UNCHANGED <<pc, dlgIdx>>

Top == stack[Len(stack)]
SetTop(f) == [stack EXCEPT ![Len(stack)] = f]

\* entry of _generate_dialog_tree: the reference marker, or the message node
TreeEnter ==
    /\ pc = "tree"
    /\ stack # <<>>
    /\ Top.stage = "enter"
    /\ IF OnPath(Top.visited, Top.message_id)
       THEN /\ out' = Append(out, Node("ref", Top.message_id, Top.level, Top.parent, None))
            /\ Return
       ELSE /\ out' = Append(out, Node("message", Top.message_id, Top.level, Top.parent, None))
            /\ stack' = SetTop([Top EXCEPT !.visited = @ \cup {Top.message_id},
                                           !.stage = "replies",
                                           !.node = Len(out) + 1])
            /\ UNCHANGED <<pc, dlgIdx>>
    /\ UNCHANGED <<variant, raised, dataVars, npcQueue, curNpc, metaVars, xliffVars, jsonVars,
                   searchVars, workerVars, threadVars>>

\* `if reply.leads_to_message_id and reply.leads_to_message_id in self.messages`:
\* None and 0 are both false
LeadsOn(r) ==
    /\ r.leads_to_message_id # None
    /\ r.leads_to_message_id # 0
    /\ r.leads_to_message_id \in DOMAIN messages

\* one iteration of `for reply in message.replies`
TreeReply ==
    /\ pc = "tree"
    /\ stack # <<>>
    /\ Top.stage = "replies"
    /\ Top.ri <= Len(messages[Top.message_id].replies)
    /\ LET r == messages[Top.message_id].replies[Top.ri]
           advanced == SetTop([Top EXCEPT !.ri = @ + 1])
       IN /\ out' = Append(out, Node("reply", r.reply_id, Top.level + 1, Top.node,
                                     r.leads_to_message_id))
          /\ IF LeadsOn(r)
             THEN /\ Len(stack) < MaxStack
                  /\ stack' = Append(advanced,
                                     Frame(r.leads_to_message_id, Top.level + 2,
                                           Top.visited, Len(out) + 1))
             ELSE stack' = advanced
    /\ UNCHANGED <<variant, pc, raised, dataVars, npcQueue, curNpc, dlgIdx,
                   metaVars, xliffVars, jsonVars,
                   searchVars, workerVars, threadVars>>

\* end of the reply loop: visited.remove(message.message_id); return message_html
TreeReturn ==
    /\ pc = "tree"
    /\ stack # <<>>
    /\ Top.stage = "replies"
    /\ Top.ri > Len(messages[Top.message_id].replies)
    /\ Return
    /\ UNCHANGED <<variant, raised, dataVars, npcQueue, curNpc, out,
                   metaVars, xliffVars, jsonVars,
                   searchVars, workerVars, threadVars>>

ReplyIdLt(rs) == {<<a, b>> \in Range(rs) \X Range(rs) : a.reply_id < b.reply_id}

RECURSIVE OrigReplyNodes(_, _)
OrigReplyNodes(rs, parent) ==
    IF rs = <<>> THEN <<>>
    ELSE <<Node("reply", Head(rs).reply_id, 1, parent, Head(rs).leads_to_message_id)>>
         \o OrigReplyNodes(Tail(rs), parent)

\* orig: one dialog block: the entry message and its replies sorted by reply_id
\* (_generate_replies_html), without the continuation messages
OrigDialog ==
    /\ pc = "dialogs"
    /\ variant = "orig"
    /\ dlgIdx <= Len(CardDialogs(curNpc))
    /\ LET d == CardDialogs(curNpc)[dlgIdx] IN
        /\ DialogResolves(d)
        /\ IF d.message_id \in DOMAIN messages
           THEN LET rs == messages[d.message_id].replies IN
                /\ out' = out \o <<Node("dialog", d.dialog_id, 0, CardNode, None),
                                    Node("message", d.message_id, 0, Len(out) + 1, None)>>
                               \o OrigReplyNodes(StableSort(rs, ReplyIdLt(rs)), Len(out) + 2)
                /\ dlgIdx' = dlgIdx + 1
                /\ UNCHANGED <<pc, raised>>
           ELSE /\ raised' = TRUE
                /\ pc' = "error"
                /\ UNCHANGED <<out, dlgIdx>>
    /\ UNCHANGED <<variant, dataVars, npcQueue, curNpc, stack, metaVars, xliffVars, jsonVars,
                   searchVars, workerVars, threadVars>>

CardEnd ==
    /\ pc = "dialogs"
    /\ dlgIdx > Len(CardDialogs(curNpc))
    /\ curNpc' = 0
    /\ pc' = "cards"
    /\ UNCHANGED <<variant, raised, dataVars, npcQueue, dlgIdx, stack, out,
                   metaVars, xliffVars, jsonVars,
                   searchVars, workerVars, threadVars>>

HtmlDone ==
    /\ pc = "cards"
    /\ npcQueue = <<>>
    /\ pc' = "done"
    /\ UNCHANGED <<variant, raised, dataVars, renderVars, metaVars, xliffVars, jsonVars,
                   searchVars, workerVars, threadVars>>

InitRender ==
    /\ variant \in {"fixed", "orig"}
    /\ pc = "build"
    /\ raised = FALSE
    /\ dom = <<>>
    /\ hidden = {}
    /\ searchMatches = <<>>
    /\ currentMatch = {}
    /\ nav = <<>>
    /\ currentMatchIndex = -1
    /\ currentSearchState = <<>>
    /\ env = <<>>
    /\ sys_stdout = Console
    /\ threads = <<>>
    /\ gui = <<>>
    /\ npcs = [n \in NpcIds |-> NewNPC(RenderNpcName(n))]
    /\ npcOrder = <<1, 2>>
    /\ messages = [m \in MsgIds |-> NewMessage]
    /\ replies \in SeqsOf(NumReplies, ReplyRecords)
    /\ dialogs \in SeqsOf(Cardinality(DialogIdx), DialogRecords)
    /\ metadata = <<>>
    /\ npcQueue = <<>>
    /\ curNpc = 0
    /\ dlgIdx = 0
    /\ stack = <<>>
    /\ out = <<>>
    /\ run = 0
    /\ html1 = <<>>
    /\ xliffFiles = <<>>
    /\ xliffDone = <<>>
    /\ xliff_translations = <<>>
    /\ reply_relationships = <<>>
    /\ structFile = <<>>
    /\ files = <<>>

\* the steps of the fixed variant's pipeline
NextFixed ==
    \/ BuildRelationships
    \/ GenerateHtmlStart
    \/ CardSkip
    \/ CardStart
    \/ DialogSkip
    \/ DialogStart
    \/ TreeEnter
    \/ TreeReply
    \/ TreeReturn
    \/ CardEnd
    \/ HtmlDone

NextRender == NextFixed \/ OrigDialog

SpecRender == InitRender /\ [][NextRender]_vars

\* Datasets with a single dialog record, rendered by the fixed variant
InitTree ==
    /\ variant = "fixed"
    /\ pc = "build"
    /\ raised = FALSE
    /\ dom = <<>>
    /\ hidden = {}
    /\ searchMatches = <<>>
    /\ currentMatch = {}
    /\ nav = <<>>
    /\ currentMatchIndex = -1
    /\ currentSearchState = <<>>
    /\ env = <<>>
    /\ sys_stdout = Console
    /\ threads = <<>>
    /\ gui = <<>>
    /\ npcs = [n \in NpcIds |-> NewNPC(RenderNpcName(n))]
    /\ npcOrder = <<1, 2>>
    /\ messages = [m \in MsgIds |-> NewMessage]
    /\ replies \in SeqsOf(NumReplies, ReplyRecords)
    /\ dialogs \in SeqsOf(1, DialogRecords)
    /\ metadata = <<>>
    /\ npcQueue = <<>>
    /\ curNpc = 0
    /\ dlgIdx = 0
    /\ stack = <<>>
    /\ out = <<>>
    /\ run = 0
    /\ html1 = <<>>
    /\ xliffFiles = <<>>
    /\ xliffDone = <<>>
    /\ xliff_translations = <<>>
    /\ reply_relationships = <<>>
    /\ structFile = <<>>
    /\ files = <<>>

SpecTree == InitTree /\ [][NextFixed]_vars

\* the interpreter runs the pipeline to its end: no step waits for anything
FairTree == SpecTree /\ WF_vars(NextFixed)

-----------------------------------------------------------------------------
(* Reading the rendered document *)

Nodes == 1..Len(out)
NodesOf(kind) == {i \in Nodes : out[i].kind = kind}
Children(i) == {j \in Nodes : out[j].parent = i}

RECURSIVE Ancestors(_)
Ancestors(i) ==
    IF out[i].parent = 0 THEN {} ELSE {out[i].parent} \cup Ancestors(out[i].parent)

\* ids of the message nodes that enclose node i
PathMessages(i) == {out[a].id : a \in {b \in Ancestors(i) : out[b].kind = "message"}}

-----------------------------------------------------------------------------
(* C1: on every dialog graph, cycles included, _generate_dialog_tree        *)
(* terminates; a message that is already on the render path is emitted as   *)
(* a reference marker that carries its id and has no children, and no       *)
(* message is rendered as a full node inside its own subtree.               *)

C1_Markers ==
    /\ \A i \in NodesOf("ref") :
          /\ Children(i) = {}
          /\ out[i].id \in PathMessages(i)
          /\ out[out[i].parent].kind = "reply"
          /\ out[out[i].parent].leads = out[i].id
    /\ \A i \in NodesOf("message") : out[i].id \notin PathMessages(i)
    /\ \A i \in 1..Len(stack) : \A j \in 1..Len(stack) :
          (i # j /\ stack[i].stage = "replies" /\ stack[j].stage = "replies")
              => stack[i].message_id # stack[j].message_id
    /\ Len(stack) <= Cardinality(DOMAIN messages) + 1

-----------------------------------------------------------------------------
(* C2: rendering never raises because of a dangling dialog; a dialog whose  *)
(* message_id is not a key of the loaded messages gets no dialog block, and *)
(* every other dialog of the same NPC gets its block, with its entry        *)
(* message inside.                                                          *)

DialogBlocks(d) == {i \in NodesOf("dialog") : out[i].id = d.dialog_id}

\* C2: a dialog whose message_id is not a loaded message raises nothing and
\* gets no block; every other dialog of the NPC gets its block and message.
C2_DanglingDialogSkipped ==
    /\ ~raised
    /\ pc # "error"
    /\ \A n \in DOMAIN npcs : \A k \in 1..Len(npcs[n].dialogs) :
          LET d == npcs[n].dialogs[k] IN
          IF d.message_id \notin DOMAIN messages
          THEN DialogBlocks(d) = {}
          ELSE pc = "done" =>
                 /\ Cardinality(DialogBlocks(d)) = 1
                 /\ \A i \in DialogBlocks(d) :
                       /\ out[out[i].parent].kind = "card"
                       /\ out[out[i].parent].id = n
                       /\ \E j \in Children(i) :
                             out[j].kind = "message" /\ out[j].id = d.message_id

\* an NPC whose first dialog dangles and whose second dialog was rendered
C2_Witness ==
    /\ pc = "done"
    /\ \E n \in DOMAIN npcs :
          /\ Len(npcs[n].dialogs) = 2
          /\ npcs[n].dialogs[1].message_id \notin DOMAIN messages
          /\ npcs[n].dialogs[2].message_id \in DOMAIN messages
          /\ DialogBlocks(npcs[n].dialogs[2]) # {}

-----------------------------------------------------------------------------
(* C10: the document has exactly one top-level card for every loaded NPC    *)
(* with at least one attached dialog and none for an NPC without; when the  *)
(* dialog graph is acyclic, every rendered message holds its replies, every *)
(* reply that leads to a loaded message holds that message, and there is no *)
(* reference marker.                                                        *)

\* the continuation edges of the loaded graph: message -> message via a reply
Edges == {<<replies[i].parent_message_id, replies[i].leads_to_message_id>> :
            i \in {k \in 1..Len(replies) :
                     /\ replies[k].parent_message_id \in DOMAIN messages
                     /\ replies[k].leads_to_message_id \in DOMAIN messages}}

RECURSIVE ReachableIn(_, _)
\* the messages reached from the set S in at least one and at most n steps
ReachableIn(S, n) ==
    IF n = 0 THEN {}
    ELSE LET next == {e[2] : e \in {f \in Edges : f[1] \in S}}
         IN next \cup ReachableIn(next, n - 1)

Acyclic == \A m \in DOMAIN messages :
               m \notin ReachableIn({m}, Cardinality(DOMAIN messages))

CardsOf(n) == {i \in NodesOf("card") : out[i].id = n}

C10_OneCardPerNpc ==
    \A n \in DOMAIN npcs :
        /\ Cardinality(CardsOf(n)) = (IF npcs[n].dialogs # <<>> THEN 1 ELSE 0)
        /\ \A i \in CardsOf(n) : out[i].parent = 0

C10_Nesting ==
    Acyclic =>
        /\ NodesOf("ref") = {}
        /\ \A i \in NodesOf("message") :
              \A k \in 1..Len(messages[out[i].id].replies) :
                  \E j \in Children(i) :
                      /\ out[j].kind = "reply"
                      /\ out[j].id = messages[out[i].id].replies[k].reply_id
                      /\ out[j].depth = out[i].depth + 1
        /\ \A j \in NodesOf("reply") :
              out[j].leads \in DOMAIN messages =>
                  \E c \in Children(j) :
                      /\ out[c].kind = "message"
                      /\ out[c].id = out[j].leads
                      /\ c > j

\* C10: the fixed variant's document has exactly one card per NPC with a
\* dialog and, for an acyclic graph, nests message, reply and continuation
\* message with no reference marker.
C10_CardsAndNesting ==
    (variant = "fixed" /\ pc = "done") => (C10_OneCardPerNpc /\ C10_Nesting)

-----------------------------------------------------------------------------
(* Metadata matching (_match_metadata_with_npcs) and the metadata part of   *)
(* the NPC card, for two runs of the program on the same input files        *)

\* number of records in the metadata file
NumMeta == 2

\* French names of the input files: case and surrounding blanks vary
Names == {<<>>, <<" ">>, <<"a">>, <<"A">>, <<"a", " ">>, <<" ", "a">>, <<"b">>}

MetaRecords(i) == [name_fr : Names, gender : {0, 1}, img_url : {"u1", "u2"}]

\* the name test of the matcher.
\* fixed: `npc.name_fr in metadata_by_name`, a dict keyed by the raw meta.name_fr
\* orig: both names non-empty and equal after .lower().strip()
NameMatches(npcName, metaName) ==
    IF variant = "fixed"
    THEN npcName = metaName
    ELSE /\ npcName # <<>>
         /\ metaName # <<>>
         /\ strip(lower(npcName)) = strip(lower(metaName))

\* the metadata records an NPC is matched with, in file order
MatchesOf(n) == SelectSeq(metadata, LAMBDA m : NameMatches(npcs[n].name_fr, m.name_fr))

RECURSIVE Column(_, _)
\* [meta.<field> for meta in matches]
Column(ms, field) ==
    IF ms = <<>> THEN <<>> ELSE <<Head(ms)[field]>> \o Column(Tail(ms), field)

\* list(set(ints)) for small non-negative ints: a set of ints iterates in
\* ascending order of their hash, which is the int itself
RECURSIVE AscendingList(_)
AscendingList(S) ==
    IF S = {} THEN <<>>
    ELSE LET m == CHOOSE x \in S : \A y \in S : x <= y
         IN <<m>> \o AscendingList(S \ {m})

\* list(set(strs)): the iteration order follows the string hashes, which are
\* salted per process: any order of the distinct elements can come out
ListsOfSet(S) == {l \in [1..Cardinality(S) -> S] : Range(l) = S}

\* orig: npc.genders.append(...) / npc.img_urls.append(...) for every match
\* fixed: npc.genders = list(set(...)), npc.img_urls = list(set(...)), only
\*        when the NPC has a match
MatchMetadata ==
    /\ pc = "match"
    /\ IF variant = "orig"
       THEN npcs' = [n \in DOMAIN npcs |->
                       [npcs[n] EXCEPT !.genders = @ \o Column(MatchesOf(n), "gender"),
                                       !.img_urls = @ \o Column(MatchesOf(n), "img_url")]]
       ELSE \E order \in ListsOfSet({m.img_url : m \in Range(metadata)}) :
              npcs' = [n \in DOMAIN npcs |->
                         IF MatchesOf(n) = <<>> THEN npcs[n]
                         ELSE [npcs[n] EXCEPT
                                 !.genders = AscendingList(Range(Column(MatchesOf(n), "gender"))),
                                 !.img_urls = SelectSeq(order,
                                     LAMBDA u : u \in Range(Column(MatchesOf(n), "img_url")))]]
    /\ pc' = "card"
    /\ UNCHANGED <<variant, raised, npcOrder, messages, replies, dialogs, metadata,
                   renderVars, metaVars, xliffVars, jsonVars,
                   searchVars, workerVars, threadVars>>

\* gender_info and img_data_attr of _generate_npc_card; the orig cards show
\* neither
CardMeta(n) ==
    IF variant = "fixed"
    THEN <<[npc_id |-> n, gender_items |-> npcs[n].genders, img_urls |-> npcs[n].img_urls]>>
    ELSE <<[npc_id |-> n, gender_items |-> <<>>, img_urls |-> <<>>]>>

RECURSIVE CardsMeta(_)
CardsMeta(q) == IF q = <<>> THEN <<>> ELSE CardMeta(Head(q)) \o CardsMeta(Tail(q))

\* _generate_html_content, as far as the metadata goes: the first run's
\* document is kept in html1, the second run's in out
RenderCardMeta ==
    /\ pc = "card"
    /\ IF run = 1
       THEN html1' = CardsMeta(SelectSeq(SortedNpcs, HasDialogs)) /\ pc' = "rerun"
            /\ UNCHANGED out
       ELSE out' = CardsMeta(SelectSeq(SortedNpcs, HasDialogs)) /\ pc' = "done"
            /\ UNCHANGED html1
    /\ UNCHANGED <<variant, raised, dataVars, npcQueue, curNpc, dlgIdx, stack, run,
                   xliffVars, jsonVars,
                   searchVars, workerVars, threadVars>>

\* the program is started again on the same files: a new NPCDialogMapper,
\* whose NPCs have empty genders and img_urls
SecondRun ==
    /\ pc = "rerun"
    /\ run' = 2
    /\ npcs' = [n \in DOMAIN npcs |-> [npcs[n] EXCEPT !.genders = <<>>, !.img_urls = <<>>]]
    /\ pc' = "match"
    /\ UNCHANGED <<variant, raised, npcOrder, messages, replies, dialogs, metadata,
                   renderVars, html1, xliffVars, jsonVars,
                   searchVars, workerVars, threadVars>>

\* the single dialog that gives the NPC of these runs a card
MetaDialog == [dialog_id |-> DialogIdAt(1), npc_id |-> 1, message_id |-> 1, check_order |-> 0]

InitMeta ==
    /\ variant \in {"fixed", "orig"}
    /\ pc = "match"
    /\ raised = FALSE
    /\ dom = <<>>
    /\ hidden = {}
    /\ searchMatches = <<>>
    /\ currentMatch = {}
    /\ nav = <<>>
    /\ currentMatchIndex = -1
    /\ currentSearchState = <<>>
    /\ env = <<>>
    /\ sys_stdout = Console
    /\ threads = <<>>
    /\ gui = <<>>
    /\ \E name \in Names :
          npcs = [n \in {1} |-> [NewNPC(name) EXCEPT !.dialogs = <<MetaDialog>>]]
    /\ npcOrder = <<1>>
    /\ messages = [m \in MsgIds |-> NewMessage]
    /\ replies = <<>>
    /\ dialogs = <<MetaDialog>>
    /\ metadata \in SeqsOf(NumMeta, MetaRecords)
    /\ npcQueue = <<>>
    /\ curNpc = 0
    /\ dlgIdx = 0
    /\ stack = <<>>
    /\ out = <<>>
    /\ run = 1
    /\ html1 = <<>>
    /\ xliffFiles = <<>>
    /\ xliffDone = <<>>
    /\ xliff_translations = <<>>
    /\ reply_relationships = <<>>
    /\ structFile = <<>>
    /\ files = <<>>

NextMeta ==
    \/ MatchMetadata
    \/ RenderCardMeta
    \/ SecondRun

SpecMeta == InitMeta /\ [][NextMeta]_vars

-----------------------------------------------------------------------------
(* C3: after _match_metadata_with_npcs, an NPC without a matching record    *)
(* has empty genders and img_urls; otherwise genders and img_urls hold      *)
(* every distinct gender and image URL of its matches exactly once.         *)

NoDuplicates(l) == \A i \in 1..Len(l) : \A j \in 1..Len(l) : l[i] = l[j] => i = j

Matched == pc \in {"card", "rerun", "done"}

\* C3: after the match, genders and img_urls of an NPC hold every distinct
\* gender and image URL of its matching records exactly once (none: empty).
C3_MatchedSetsDeduplicated ==
    Matched =>
        \A n \in DOMAIN npcs :
            /\ Range(npcs[n].genders) = Range(Column(MatchesOf(n), "gender"))
            /\ Range(npcs[n].img_urls) = Range(Column(MatchesOf(n), "img_url"))
            /\ NoDuplicates(npcs[n].genders)
            /\ NoDuplicates(npcs[n].img_urls)

-----------------------------------------------------------------------------
(* C4: an NPC is matched with a metadata record if and only if their French *)
(* names are equal after trimming surrounding whitespace and lower-casing.  *)

Normalized(name) == lower(strip(name))

NormalizedMatchesOf(n) ==
    SelectSeq(metadata, LAMBDA m : Normalized(npcs[n].name_fr) = Normalized(m.name_fr))

\* C4: the records matched with an NPC are exactly those whose French name
\* equals the NPC's after trimming surrounding blanks and lower-casing both.
C4_NormalizedNameMatch ==
    Matched =>
        \A n \in DOMAIN npcs :
            /\ Range(npcs[n].genders) = Range(Column(NormalizedMatchesOf(n), "gender"))
            /\ Range(npcs[n].img_urls) = Range(Column(NormalizedMatchesOf(n), "img_url"))

-----------------------------------------------------------------------------
(* C9: two runs of the program on the same input files render the same      *)
(* document, the order of the genders and image URLs of an NPC included.    *)

C9_SameHtmlTwice == pc = "done" => html1 = out

-----------------------------------------------------------------------------
(* XLIFF mode: _load_xliff_translations, _load_structure_from_json,         *)
(* _merge_xliff_with_structure                                              *)

\* number of trans-units in a translation file
NumUnits == 1

\* .get(lang) of a translation entry that has no such language: None
NoneText == "None"

\* Source texts are sequences of tokens: "[" and "]", the blank, letters, and
\* "w" standing for the literal prefix wait_mod_
SourceTexts == {<<"[", "w", "x", "]", " ", "a">>, <<"b">>}

\* index of the first "]" of s at or after position i (0: none)
RECURSIVE FirstClose(_, _)
FirstClose(s, i) ==
    IF i > Len(s) THEN 0
    ELSE IF s[i] = "]" THEN i
    ELSE FirstClose(s, i + 1)

\* fixed: re.sub(r'^\[wait_mod_[^\]]+\]\s*', '', text).strip()
CleanFixed(text) ==
    LET close == FirstClose(text, 3) IN
    IF Len(text) >= 4 /\ text[1] = "[" /\ text[2] = "w" /\ close >= 4
    THEN strip(SubSeq(text, close + 1, Len(text)))
    ELSE strip(text)

\* orig: re.sub(r'\[.*?\]', '', text).strip(): every "[", up to the first "]"
\* that follows it, is removed, scanning from the left
RECURSIVE DropBracketed(_)
DropBracketed(text) ==
    IF text = <<>> THEN <<>>
    ELSE IF Head(text) = "[" /\ FirstClose(text, 2) > 0
         THEN DropBracketed(SubSeq(text, FirstClose(text, 2) + 1, Len(text)))
         ELSE <<Head(text)>> \o DropBracketed(Tail(text))

CleanOrig(text) == strip(DropBracketed(text))

_clean_source_text(text) == IF variant = "fixed" THEN CleanFixed(text) ELSE CleanOrig(text)

\* the trans-unit ids of the files: npc.<entityId>.<entryType>; the entity id of
\* the last one is not numeric (int() raises ValueError and the unit is skipped)
UnitIds ==
    {[numeric |-> TRUE, entity_id |-> 1, entry_type |-> "name"],
     [numeric |-> TRUE, entity_id |-> 1, entry_type |-> "message"],
     [numeric |-> TRUE, entity_id |-> 1, entry_type |-> "reply"],
     [numeric |-> TRUE, entity_id |-> 2, entry_type |-> "reply"],
     [numeric |-> FALSE, entity_id |-> 0, entry_type |-> "message"]}

\* the target text of the i-th unit of the file of a language: every unit
\* has a text of its own
TargetText(lang, i) ==
    CASE lang = "en" -> IF i = 1 THEN "en1" ELSE IF i = 2 THEN "en2" ELSE "en3"
      [] lang = "es" -> IF i = 1 THEN "es1" ELSE IF i = 2 THEN "es2" ELSE "es3"
      [] lang = "pt" -> IF i = 1 THEN "pt1" ELSE IF i = 2 THEN "pt2" ELSE "pt3"

\* the unit lists a translation file can hold: 1..NumUnits units
UnitLists(lang) ==
    UNION {{u \in [1..n -> [unit_id : UnitIds, source : SourceTexts,
                              target : {TargetText(lang, i) : i \in 1..n}]] :
              \A i \in 1..n : u[i].target = TargetText(lang, i)} : n \in 1..NumUnits}

\* a configured translation file: absent (os.path.exists is false), or its units
XliffFile(lang) ==
    {[lang |-> lang, present |-> FALSE, units |-> <<>>]}
        \cup {[lang |-> lang, present |-> TRUE, units |-> u] : u \in UnitLists(lang)}

EmptyTable == [keys |-> <<>>, val |-> <<>>]
TableOf(entry_type) ==
    CASE entry_type = "name" -> "npc_names"
      [] entry_type = "message" -> "messages"
      [] entry_type = "reply" -> "replies"

\* a dict entry with one more key set
WithKey(e, k, v) == [l \in DOMAIN e \cup {k} |-> IF l = k THEN v ELSE e[l]]

\* translations.get(lang)
Get(e, lang) == IF lang \in DOMAIN e THEN e[lang] ELSE NoneText

\* a loop body that stores the source of every unit, not of the first only
RecordUnit_LastSource(tr, u, lang) ==
    IF ~u.unit_id.numeric THEN tr
    ELSE LET t == TableOf(u.unit_id.entry_type)
             id == u.unit_id.entity_id
             known == \E i \in 1..Len(tr[t].keys) : tr[t].keys[i] = id
             entry == WithKey(IF known THEN tr[t].val[id] ELSE <<>>,
                              "fr", _clean_source_text(u.source))
         IN [tr EXCEPT ![t] =
                [keys |-> IF known THEN @.keys ELSE Append(@.keys, id),
                 val |-> WithKey(@.val, id, WithKey(entry, lang, u.target))]]

\* the body of the trans-unit loop for one unit:
\*   if entity_id_int not in table: table[entity_id_int] = {'fr': source_text}
\*   table[entity_id_int][target_lang] = target_text
RecordUnit(tr, u, lang) ==
    IF ~u.unit_id.numeric THEN tr
    ELSE LET t == TableOf(u.unit_id.entry_type)
             id == u.unit_id.entity_id
             known == \E i \in 1..Len(tr[t].keys) : tr[t].keys[i] = id
             entry == IF known THEN tr[t].val[id]
                      ELSE WithKey(<<>>, "fr", _clean_source_text(u.source))
         IN [tr EXCEPT ![t] =
                [keys |-> IF known THEN @.keys ELSE Append(@.keys, id),
                 val |-> WithKey(@.val, id, WithKey(entry, lang, u.target))]]

RECURSIVE RecordUnits(_, _, _)
RecordUnits(tr, units, lang) ==
    IF units = <<>> THEN tr
    ELSE RecordUnits(RecordUnit(tr, Head(units), lang), Tail(units), lang)

\* one iteration of `for lang_pair, filename in self.xliff_files.items()`
LoadXliffFile ==
    /\ pc = "xliff"
    /\ xliffFiles # <<>>
    /\ LET f == Head(xliffFiles) IN
        /\ xliff_translations' =
              IF f.present THEN RecordUnits(xliff_translations, f.units, f.lang)
              ELSE xliff_translations
        /\ xliffDone' = Append(xliffDone, f)
    /\ xliffFiles' = Tail(xliffFiles)
    /\ UNCHANGED <<variant, pc, raised, dataVars, renderVars, metaVars,
                   reply_relationships, structFile, jsonVars,
                   searchVars, workerVars, threadVars>>

XliffLoaded ==
    /\ pc = "xliff"
    /\ xliffFiles = <<>>
    /\ pc' = "structure"
    /\ UNCHANGED <<variant, raised, dataVars, renderVars, metaVars, xliffVars, jsonVars,
                   searchVars, workerVars, threadVars>>

\* the reply records of the structural file export_npc_reply_json.json
StructRecord(id) == [reply_id |-> id, reply_parent_id |-> 1, reply_message_id |-> 2]
StructFiles == {<<>>, <<StructRecord(1)>>, <<StructRecord(2)>>,
                <<StructRecord(1), StructRecord(2)>>}

\* the dialog record of the structural file export_npc_dialog_json.json
XliffDialog == [dialog_id |-> DialogIdAt(1), npc_id |-> 1, message_id |-> 1, check_order |-> 0]

RECURSIVE Relationships(_)
\* fixed: self._reply_relationships[reply['reply_id']] = {...}
Relationships(recs) ==
    IF recs = <<>> THEN <<>>
    ELSE WithKey(Relationships(SubSeq(recs, 1, Len(recs) - 1)), recs[Len(recs)].reply_id,
                 [parent_message_id |-> recs[Len(recs)].reply_parent_id,
                  leads_to_message_id |-> recs[Len(recs)].reply_message_id])

NewReply(id, parent, leads) ==
    [reply_id |-> id, text_fr |-> <<>>, text_en |-> NoneText, text_es |-> NoneText,
     text_pt |-> NoneText, parent_message_id |-> parent, leads_to_message_id |-> leads]

RECURSIVE StructReplies(_)
\* orig: self.replies[reply.reply_id] = NPCReply(reply_id, text_fr="", None, ...)
StructReplies(recs) ==
    IF recs = <<>> THEN <<>>
    ELSE <<NewReply(Head(recs).reply_id, Head(recs).reply_parent_id,
                    Head(recs).reply_message_id)>> \o StructReplies(Tail(recs))

\* _load_structure_from_json: the dialogs, and the reply links, which fixed
\* keeps in _reply_relationships and orig stores as Reply entities
LoadStructure ==
    /\ pc = "structure"
    /\ dialogs' = dialogs \o <<XliffDialog>>
    /\ IF variant = "fixed"
       THEN reply_relationships' = Relationships(structFile) /\ UNCHANGED replies
       ELSE replies' = StructReplies(structFile) /\ UNCHANGED reply_relationships
    /\ pc' = "merge"
    /\ UNCHANGED <<variant, raised, npcs, npcOrder, messages, metadata, renderVars, metaVars,
                   xliffFiles, xliffDone, xliff_translations, structFile, jsonVars,
                   searchVars, workerVars, threadVars>>

WithTexts(rec, e) ==
    [rec EXCEPT !.text_fr = IF "fr" \in DOMAIN e THEN e["fr"] ELSE <<>>,
                !.text_en = Get(e, "en"),
                !.text_es = Get(e, "es"),
                !.text_pt = Get(e, "pt")]

XliffNPC(e) ==
    [name_fr |-> IF "fr" \in DOMAIN e THEN e["fr"] ELSE <<>>,
     name_en |-> Get(e, "en"), name_es |-> Get(e, "es"), name_pt |-> Get(e, "pt"),
     dialogs |-> <<>>, genders |-> <<>>, img_urls |-> <<>>]

XliffMessage(e) ==
    [text_fr |-> IF "fr" \in DOMAIN e THEN e["fr"] ELSE <<>>,
     text_en |-> Get(e, "en"), text_es |-> Get(e, "es"), text_pt |-> Get(e, "pt"),
     replies |-> <<>>]

\* fixed: a Reply for every reply translation, with
\* relationship = self._reply_relationships.get(reply_id, {}),
\* parent_message_id = relationship.get('parent_message_id', 0),
\* leads_to_message_id = relationship.get('leads_to_message_id')
MergedReplyFixed(id) ==
    LET e == xliff_translations.replies.val[id]
        known == id \in DOMAIN reply_relationships
    IN WithTexts(NewReply(id,
                          IF known THEN reply_relationships[id].parent_message_id ELSE 0,
                          IF known THEN reply_relationships[id].leads_to_message_id ELSE None),
                 e)

\* orig: the structural Reply, with the texts of its translation if it has one
MergedReplyOrig(r) ==
    IF r.reply_id \in DOMAIN xliff_translations.replies.val
    THEN WithTexts(r, xliff_translations.replies.val[r.reply_id])
    ELSE r

MergedReplies ==
    IF variant = "fixed"
    THEN [i \in 1..Len(xliff_translations.replies.keys) |->
              MergedReplyFixed(xliff_translations.replies.keys[i])]
    ELSE [i \in 1..Len(replies) |-> MergedReplyOrig(replies[i])]

\* _merge_xliff_with_structure
MergeXliff ==
    /\ pc = "merge"
    /\ npcs' = [n \in DOMAIN xliff_translations.npc_names.val |->
                  XliffNPC(xliff_translations.npc_names.val[n])]
    /\ npcOrder' = xliff_translations.npc_names.keys
    /\ messages' = [m \in DOMAIN xliff_translations.messages.val |->
                      XliffMessage(xliff_translations.messages.val[m])]
    /\ replies' = MergedReplies
    /\ reply_relationships' = <<>>
    /\ pc' = "merged"
    /\ UNCHANGED <<variant, raised, dialogs, metadata, renderVars, metaVars,
                   xliffFiles, xliffDone, xliff_translations, structFile, jsonVars,
                   searchVars, workerVars, threadVars>>

\* the two configured translation files, in either dict order
FileOrders == {<<"en", "es">>, <<"es", "en">>}

InitXliff ==
    /\ variant \in {"fixed", "orig"}
    /\ pc = "xliff"
    /\ raised = FALSE
    /\ dom = <<>>
    /\ hidden = {}
    /\ searchMatches = <<>>
    /\ currentMatch = {}
    /\ nav = <<>>
    /\ currentMatchIndex = -1
    /\ currentSearchState = <<>>
    /\ env = <<>>
    /\ sys_stdout = Console
    /\ threads = <<>>
    /\ gui = <<>>
    /\ npcs = <<>>
    /\ npcOrder = <<>>
    /\ messages = <<>>
    /\ replies = <<>>
    /\ dialogs = <<>>
    /\ metadata = <<>>
    /\ npcQueue = <<>>
    /\ curNpc = 0
    /\ dlgIdx = 0
    /\ stack = <<>>
    /\ out = <<>>
    /\ run = 0
    /\ html1 = <<>>
    /\ \E o \in FileOrders : \E f1 \in XliffFile(o[1]) : \E f2 \in XliffFile(o[2]) :
          xliffFiles = <<f1, f2>>
    /\ xliffDone = <<>>
    /\ xliff_translations = [npc_names |-> EmptyTable, messages |-> EmptyTable,
                             replies |-> EmptyTable]
    /\ reply_relationships = <<>>
    /\ structFile \in StructFiles
    /\ files = <<>>

NextXliff ==
    \/ LoadXliffFile
    \/ XliffLoaded
    \/ LoadStructure
    \/ MergeXliff

SpecXliff == InitXliff /\ [][NextXliff]_vars

-----------------------------------------------------------------------------
(* The translation files as they were read, for stating what the merged     *)
(* entities must hold                                                       *)

RECURSIVE UnitsSeen(_)
\* the well-formed units of the processed files, in the order they were read,
\* each with the language of its file
UnitsSeen(fs) ==
    IF fs = <<>> THEN <<>>
    ELSE LET f == Head(fs)
             own == IF f.present
                    THEN [i \in 1..Len(f.units) |-> [lang |-> f.lang, unit |-> f.units[i]]]
                    ELSE <<>>
         IN SelectSeq(own, LAMBDA x : x.unit.unit_id.numeric) \o UnitsSeen(Tail(fs))

UnitsOf(entry_type, id) ==
    SelectSeq(UnitsSeen(xliffDone),
              LAMBDA x : x.unit.unit_id.entry_type = entry_type /\ x.unit.unit_id.entity_id = id)

TranslatedIds(entry_type) ==
    {x.unit.unit_id.entity_id :
        x \in {y \in Range(UnitsSeen(xliffDone)) : y.unit.unit_id.entry_type = entry_type}}

FirstSource(entry_type, id) == _clean_source_text(UnitsOf(entry_type, id)[1].unit.source)

TargetOf(entry_type, id, lang) ==
    LET us == SelectSeq(UnitsOf(entry_type, id), LAMBDA x : x.lang = lang)
    IN IF us = <<>> THEN NoneText ELSE us[Len(us)].unit.target

\* C5: in XLIFF mode, whatever the order of the translation files, the French
\* text of every merged entity is the cleaned source of the first unit seen
\* for its key, every file that holds the unit gives its target text under
\* its own language, and a language no file holds the unit for is None.
C5_TranslationsAccumulate ==
    pc = "merged" =>
        /\ \A n \in DOMAIN npcs :
              /\ npcs[n].name_fr = FirstSource("name", n)
              /\ npcs[n].name_en = TargetOf("name", n, "en")
              /\ npcs[n].name_es = TargetOf("name", n, "es")
              /\ npcs[n].name_pt = TargetOf("name", n, "pt")
        /\ \A m \in DOMAIN messages :
              /\ messages[m].text_fr = FirstSource("message", m)
              /\ messages[m].text_en = TargetOf("message", m, "en")
              /\ messages[m].text_es = TargetOf("message", m, "es")
              /\ messages[m].text_pt = TargetOf("message", m, "pt")
        /\ \A i \in 1..Len(replies) :
              replies[i].reply_id \in TranslatedIds("reply") =>
                  /\ replies[i].text_fr = FirstSource("reply", replies[i].reply_id)
                  /\ replies[i].text_en = TargetOf("reply", replies[i].reply_id, "en")
                  /\ replies[i].text_es = TargetOf("reply", replies[i].reply_id, "es")
                  /\ replies[i].text_pt = TargetOf("reply", replies[i].reply_id, "pt")

\* Message 1 is in both files, with different sources, and merged
C5_Witness ==
    /\ pc = "merged"
    /\ 1 \in DOMAIN messages
    /\ Len(UnitsOf("message", 1)) >= 2
    /\ UnitsOf("message", 1)[1].lang # UnitsOf("message", 1)[2].lang
    /\ _clean_source_text(UnitsOf("message", 1)[2].unit.source) # messages[1].text_fr
    /\ messages[1].text_en # NoneText
    /\ messages[1].text_es # NoneText
    /\ messages[1].text_pt = NoneText

ReplyIds == {replies[i].reply_id : i \in 1..Len(replies)}

\* C6: in XLIFF mode, after the merge the NPCs, the Messages and the Replies
\* are exactly the ids that have a translation entry of their type; an id
\* that only the structural files name yields no entity.
C6_EntitiesAreTranslatedIds ==
    pc = "merged" =>
        /\ DOMAIN npcs = TranslatedIds("name")
        /\ DOMAIN messages = TranslatedIds("message")
        /\ ReplyIds = TranslatedIds("reply")

-----------------------------------------------------------------------------
(* JSON mode: _load_npcs, _load_messages, _load_replies, _load_dialogs      *)

\* most records in the NPC file and in the dialog file
NumRecords == 2

\* a raw record of a file: a mapping with every field, something that is not
\* a mapping, or a mapping without a required field
Shapes == {"ok", "not_mapping", "missing_field"}

\* the record lists of at most n records; the record at position i has id i
RawLists(n) ==
    UNION {{l \in [1..k -> [shape : Shapes, id : 1..k]] : \A i \in 1..k : l[i].id = i} :
              k \in 0..n}

\* a data file: absent, or the list of its records
DataFiles(n) ==
    {[present |-> FALSE, records |-> <<>>]}
        \cup {[present |-> TRUE, records |-> l] : l \in RawLists(n)}

\* fixed: `for npc in npc_data: self.npcs[npc['npc_id']] = NPC(...)` inside one
\* try whose handler re-raises: the records before the first malformed one
\* are stored, the exception leaves the loader
RECURSIVE ScanFixed(_)
ScanFixed(recs) ==
    IF recs = <<>> THEN [loaded |-> <<>>, raised |-> FALSE]
    ELSE IF Head(recs).shape # "ok" THEN [loaded |-> <<>>, raised |-> TRUE]
    ELSE LET rest == ScanFixed(Tail(recs))
         IN [loaded |-> <<Head(recs)>> \o rest.loaded, raised |-> rest.raised]

\* orig: the record loop; `if not isinstance(item, dict): continue` and the
\* try/except around each record skip the malformed ones
RECURSIVE ScanOrig(_)
ScanOrig(recs) ==
    IF recs = <<>> THEN <<>>
    ELSE IF Head(recs).shape # "ok" THEN ScanOrig(Tail(recs))
    ELSE <<Head(recs)>> \o ScanOrig(Tail(recs))

\* the loaders of NPCs, messages and replies
\* fixed: open() of an absent file raises, and the handler re-raises
\* orig: an absent file and an empty list return; a first entry that is not
\*       a dict prints an error and returns; otherwise the record loop
LoadEntities(f) ==
    IF variant = "fixed"
    THEN IF ~f.present THEN [loaded |-> <<>>, raised |-> TRUE]
         ELSE ScanFixed(f.records)
    ELSE IF ~f.present \/ f.records = <<>> THEN [loaded |-> <<>>, raised |-> FALSE]
         ELSE IF Head(f.records).shape = "not_mapping" THEN [loaded |-> <<>>, raised |-> FALSE]
         ELSE [loaded |-> ScanOrig(f.records), raised |-> FALSE]

\* _load_dialogs: an absent file raises in both variants; orig has the record
\* loop without the test of the first entry
LoadDialogRecords(f) ==
    IF ~f.present THEN [loaded |-> <<>>, raised |-> TRUE]
    ELSE IF variant = "fixed" THEN ScanFixed(f.records)
    ELSE [loaded |-> ScanOrig(f.records), raised |-> FALSE]

IdsOf(recs) == {recs[i].id : i \in 1..Len(recs)}

JsonReply(r) == [reply_id |-> r.id, parent_message_id |-> 1, leads_to_message_id |-> None]
JsonDialog(r) == [dialog_id |-> r.id, npc_id |-> 1, message_id |-> 1, check_order |-> 0]

JsonReplies(recs) == [i \in 1..Len(recs) |-> JsonReply(recs[i])]
JsonDialogs(recs) == [i \in 1..Len(recs) |-> JsonDialog(recs[i])]

_load_npcs ==
    /\ pc = "load_npcs"
    /\ LET r == LoadEntities(files["npc"]) IN
        /\ npcs' = [n \in IdsOf(r.loaded) |-> NewNPC(RenderNpcName(n))]
        /\ npcOrder' = [i \in 1..Len(r.loaded) |-> r.loaded[i].id]
        /\ raised' = r.raised
        /\ pc' = IF r.raised THEN "failed" ELSE "load_messages"
    /\ UNCHANGED <<variant, messages, replies, dialogs, metadata, renderVars, metaVars,
                   xliffVars, jsonVars,
                   searchVars, workerVars, threadVars>>

_load_messages ==
    /\ pc = "load_messages"
    /\ LET r == LoadEntities(files["message"]) IN
        /\ messages' = [m \in IdsOf(r.loaded) |-> NewMessage]
        /\ raised' = r.raised
        /\ pc' = IF r.raised THEN "failed" ELSE "load_replies"
    /\ UNCHANGED <<variant, npcs, npcOrder, replies, dialogs, metadata, renderVars, metaVars,
                   xliffVars, jsonVars,
                   searchVars, workerVars, threadVars>>

_load_replies ==
    /\ pc = "load_replies"
    /\ LET r == LoadEntities(files["reply"]) IN
        /\ replies' = JsonReplies(r.loaded)
        /\ raised' = r.raised
        /\ pc' = IF r.raised THEN "failed" ELSE "load_dialogs"
    /\ UNCHANGED <<variant, npcs, npcOrder, messages, dialogs, metadata, renderVars, metaVars,
                   xliffVars, jsonVars,
                   searchVars, workerVars, threadVars>>

_load_dialogs ==
    /\ pc = "load_dialogs"
    /\ LET r == LoadDialogRecords(files["dialog"]) IN
        /\ dialogs' = JsonDialogs(r.loaded)
        /\ raised' = r.raised
        /\ pc' = IF r.raised THEN "failed" ELSE "loaded"
    /\ UNCHANGED <<variant, npcs, npcOrder, messages, replies, metadata, renderVars, metaVars,
                   xliffVars, jsonVars,
                   searchVars, workerVars, threadVars>>

\* the message file and the reply file hold at most one record
InitJson ==
    /\ variant \in {"fixed", "orig"}
    /\ pc = "load_npcs"
    /\ raised = FALSE
    /\ dom = <<>>
    /\ hidden = {}
    /\ searchMatches = <<>>
    /\ currentMatch = {}
    /\ nav = <<>>
    /\ currentMatchIndex = -1
    /\ currentSearchState = <<>>
    /\ env = <<>>
    /\ sys_stdout = Console
    /\ threads = <<>>
    /\ gui = <<>>
    /\ npcs = <<>>
    /\ npcOrder = <<>>
    /\ messages = <<>>
    /\ replies = <<>>
    /\ dialogs = <<>>
    /\ metadata = <<>>
    /\ npcQueue = <<>>
    /\ curNpc = 0
    /\ dlgIdx = 0
    /\ stack = <<>>
    /\ out = <<>>
    /\ run = 0
    /\ html1 = <<>>
    /\ xliffFiles = <<>>
    /\ xliffDone = <<>>
    /\ xliff_translations = <<>>
    /\ reply_relationships = <<>>
    /\ structFile = <<>>
    /\ \E fn \in DataFiles(NumRecords), fm \in DataFiles(1), fr \in DataFiles(1),
          fd \in DataFiles(NumRecords) :
          files = [k \in {"npc", "message", "reply", "dialog"} |->
                      CASE k = "npc" -> fn
                        [] k = "message" -> fm
                        [] k = "reply" -> fr
                        [] k = "dialog" -> fd]

NextJson ==
    \/ _load_npcs
    \/ _load_messages
    \/ _load_replies
    \/ _load_dialogs

SpecJson == InitJson /\ [][NextJson]_vars

\* load_data has returned or raised
Ended == pc \in {"loaded", "failed"}

WellFormed(k) == \A i \in 1..Len(files[k].records) : files[k].records[i].shape = "ok"

\* C7: in JSON mode load_data raises when the Dialogs file is absent; when the
\* NPCs, the Messages or the Replies file is absent (the Dialogs file being
\* there and every record well-formed) it completes without raising and the
\* collection of the absent file is empty.
C7_MissingFiles ==
    Ended =>
        /\ ~files["dialog"].present => raised
        /\ (files["dialog"].present /\ \A k \in DOMAIN files : WellFormed(k)) =>
              /\ ~raised
              /\ ~files["npc"].present => npcs = <<>>
              /\ ~files["message"].present => messages = <<>>
              /\ ~files["reply"].present => replies = <<>>

\* C8: for every list of records and every position of the malformed ones, the
\* loaders skip exactly the malformed records without aborting: every
\* collection is the one loaded from its list without the malformed records.
C8_MalformedSkipped ==
    (Ended /\ \A k \in DOMAIN files : files[k].present) =>
        /\ ~raised
        /\ DOMAIN npcs = IdsOf(SelectSeq(files["npc"].records, LAMBDA r : r.shape = "ok"))
        /\ DOMAIN messages = IdsOf(SelectSeq(files["message"].records, LAMBDA r : r.shape = "ok"))
        /\ replies = JsonReplies(SelectSeq(files["reply"].records, LAMBDA r : r.shape = "ok"))
        /\ dialogs = JsonDialogs(SelectSeq(files["dialog"].records, LAMBDA r : r.shape = "ok"))

-----------------------------------------------------------------------------
(* The script of the generated page (_get_javascript): text matching        *)

\* Texts and terms of the page are sequences of characters.
\* \w of a RegExp without the u flag: ASCII letters, digits and "_"
WordChars == {"a", "c", "e", "f", "g", "l", "n", "o", "r", "t", "u", "x", "y",
              "C", "F", "N", "R", "U", "L", "0", "1", "2", "3", "_"}

\* String.prototype.toLowerCase
toLowerCaseChar(c) ==
    CASE c = "C" -> "c" [] c = "F" -> "f" [] c = "R" -> "r" [] c = "N" -> "n"
      [] c = "U" -> "u" [] c = "L" -> "l" [] OTHER -> c
toLowerCase(s) == [i \in 1..Len(s) |-> toLowerCaseChar(s[i])]

\* removeDiacritics: str.normalize('NFD').replace(/[\u0300-\u036f]/g, '')
removeDiacritics(s) == [i \in 1..Len(s) |-> IF s[i] = "é" THEN "e" ELSE s[i]]

\* String.prototype.includes
includes(text, pattern) ==
    \E i \in 1..(Len(text) + 1) :
        /\ i + Len(pattern) - 1 <= Len(text)
        /\ SubSeq(text, i, i + Len(pattern) - 1) = pattern

\* \b at the gap before position p (1..Len+1): a word character on exactly
\* one side
WordAt(text, p) == p >= 1 /\ p <= Len(text) /\ text[p] \in WordChars
Boundary(text, p) == WordAt(text, p - 1) # WordAt(text, p)

\* new RegExp(`\b${escaped pattern}\b`, 'i').test(text): the pattern taken
\* literally ("*" included) between two word boundaries
testWordBounded(text, pattern) ==
    \E i \in 1..(Len(text) + 1) :
        /\ i + Len(pattern) - 1 <= Len(text)
        /\ SubSeq(text, i, i + Len(pattern) - 1) = pattern
        /\ Boundary(text, i)
        /\ Boundary(text, i + Len(pattern))

\* wildcardToRegex: every character literal, "*" replaced by [^\s]*;
\* MatchFrom: the regex matches text from position i on
RECURSIVE MatchFrom(_, _, _)
MatchFrom(pattern, text, i) ==
    IF pattern = <<>> THEN TRUE
    ELSE IF Head(pattern) = "*"
         THEN \/ MatchFrom(Tail(pattern), text, i)
              \/ i <= Len(text) /\ text[i] # " " /\ MatchFrom(pattern, text, i + 1)
         ELSE i <= Len(text) /\ text[i] = Head(pattern)
                  /\ MatchFrom(Tail(pattern), text, i + 1)

\* new RegExp(wildcardToRegex(pattern), 'i').test(text)
testWildcard(text, pattern) == \E i \in 1..(Len(text) + 1) : MatchFrom(pattern, text, i)

\* the test every search function applies to the text of a row:
\*   if (exactMatch) \b...\b  else if (useWildcards && pattern.includes('*'))
\*   wildcard regex  else textContent.includes(pattern)
TextMatches(textContent, searchTerm, st) ==
    LET text == IF st.ignoreDiacritics THEN removeDiacritics(textContent) ELSE textContent
        pattern == IF st.ignoreDiacritics THEN removeDiacritics(searchTerm) ELSE searchTerm
    IN IF st.exactMatch THEN testWordBounded(text, pattern)
       ELSE IF st.useWildcards /\ includes(pattern, <<"*">>) THEN testWildcard(text, pattern)
       ELSE includes(text, pattern)

-----------------------------------------------------------------------------
(* The document the script works on (_generate_npc_card,                    *)
(* _generate_dialog_tree): cards, dialog containers, messages, replies      *)

\* the four .lang-row of a card's names, of a message or of a reply; an empty
\* text stands for None or ""
Rows(fr, en, es, pt) ==
    <<[lang |-> "fr", text |-> fr], [lang |-> "en", text |-> en],
      [lang |-> "es", text |-> es], [lang |-> "pt", text |-> pt]>>
Filled(t) == Rows(t, t, t, t)
FrOnly(t) == Rows(t, <<>>, <<>>, <<>>)

\* an element: its kind (class), its id attribute (data-npc-id,
\* data-message-id, data-reply-id; the dialog id is only text), the element it
\* is nested in (0: the page) and its own language rows
DomNode(kind, id, parent, rows) == [kind |-> kind, id |-> id, parent |-> parent, rows |-> rows]

\* _format_text_with_null_check: the marker for None and "", else the text
NullMarker == <<"N", "U", "L", "L", " ", "!">>
_format_text_with_null_check(text) == IF text = <<>> THEN NullMarker ELSE text

Label(lang) ==
    CASE lang = "fr" -> <<"F", "R", ":">>
      [] lang = "en" -> <<"E", "N", ":">>
      [] lang = "es" -> <<"E", "S", ":">>
      [] lang = "pt" -> <<"P", "T", ":">>

\* row.textContent.toLowerCase(): white space, the label, a blank, the
\* formatted text, white space
RowText(row) ==
    toLowerCase(<<" ">> \o Label(row.lang) \o <<" ">>
                    \o _format_text_with_null_check(row.text) \o <<" ">>)

cat == <<"c", "a", "t">>
category == <<"c", "a", "t", "e", "g", "o", "r", "y">>
xx == <<"x">>

\* one card, all of whose message texts are "category"
DocCategory ==
    <<DomNode("card", <<"3">>, 0, Filled(xx)),
      DomNode("dialog", <<>>, 1, <<>>),
      DomNode("message", <<"2">>, 2, Filled(category))>>

\* three cards; ids that are prefixes of one another; missing translations
\* in the second card only
DocCards ==
    <<DomNode("card", <<"1">>, 0, Filled(xx)),
      DomNode("dialog", <<>>, 1, <<>>),
      DomNode("message", <<"1", "1">>, 2, Filled(xx)),
      DomNode("reply", <<"1">>, 3, Rows(xx, cat, xx, xx)),
      DomNode("card", <<"1", "1">>, 0, FrOnly(<<"é">>)),
      DomNode("dialog", <<>>, 5, <<>>),
      DomNode("message", <<"1">>, 6, FrOnly(xx)),
      DomNode("card", <<"2">>, 0, Filled(cat)),
      DomNode("dialog", <<>>, 8, <<>>),
      DomNode("message", <<"2">>, 9, Filled(<<"e">>))>>

\* one card with two dialogs; in the first, message 1 has the replies 1 and 2,
\* reply 1 leads to message 2, whose text is "cat" and which has reply 3
DocTree ==
    <<DomNode("card", <<"1">>, 0, Filled(xx)),
      DomNode("dialog", <<>>, 1, <<>>),
      DomNode("message", <<"1">>, 2, Filled(xx)),
      DomNode("reply", <<"1">>, 3, Filled(xx)),
      DomNode("message", <<"2">>, 4, Filled(cat)),
      DomNode("reply", <<"3">>, 5, Filled(xx)),
      DomNode("reply", <<"2">>, 3, Filled(xx)),
      DomNode("dialog", <<>>, 1, <<>>),
      DomNode("message", <<"3">>, 8, Filled(xx)),
      DomNode("reply", <<"0">>, 9, Filled(xx))>>

Docs == {DocCategory, DocCards, DocTree}

Elements == 1..Len(dom)
ElementsOf(kind) == {i \in Elements : dom[i].kind = kind}

\* the elements an element is nested in, itself excluded
RECURSIVE Enclosing(_)
Enclosing(i) == IF dom[i].parent = 0 THEN {} ELSE {dom[i].parent} \cup Enclosing(dom[i].parent)

\* element.querySelectorAll of a class: the elements of that kind nested in e
Within(e, kinds) == {i \in Elements : dom[i].kind \in kinds /\ e \in Enclosing(i)}

\* the .lang-row elements of a set of elements, as <<element, row number>>
LangRows(es) == {<<i, k>> \in es \X (1..4) : k <= Len(dom[i].rows)}

-----------------------------------------------------------------------------
(* The script of the generated page: performSearch and the navigation       *)

Langs == {"fr", "en", "es", "pt"}
SearchTypes == {"text", "npc-name", "npc-id", "message-id", "reply-id"}

\* let currentSearchState = {...}: the settings before the first search
DefaultSearchState ==
    [term |-> <<>>, type |-> "text", nullOnly |-> FALSE, exactMatch |-> FALSE,
     ignoreDiacritics |-> FALSE, useWildcards |-> FALSE,
     showOnlyMatchDialogs |-> FALSE, showOnlyMatchMsgReply |-> FALSE,
     searchLangs |-> Langs]

\* String.prototype.trim
trim(s) == strip(s)

\* the loop over the rows of searchInNPCNames, dialogTreeContainsMatch and
\* searchInText: the row's language is selected and its text matches
RowMatches(r, searchTerm, st) ==
    LET row == dom[r[1]].rows[r[2]]
    IN row.lang \in st.searchLangs /\ TextMatches(RowText(row), searchTerm, st)
AnyRowMatches(es, searchTerm, st) == \E r \in LangRows(es) : RowMatches(r, searchTerm, st)

searchInNPCNames(card, searchTerm, st) == AnyRowMatches({card}, searchTerm, st)

dialogTreeContainsMatch(dialogContainer, searchTerm, st) ==
    /\ searchTerm # <<>>
    /\ AnyRowMatches(Within(dialogContainer, {"message", "reply"}), searchTerm, st)

searchInText(card, searchTerm, st) ==
    \/ searchInNPCNames(card, searchTerm, st)
    \/ AnyRowMatches(Within(card, {"message", "reply"}), searchTerm, st)

\* card.innerHTML.includes('null-value'): some name, message or reply text of
\* the card was rendered as the marker
ContainsNullValue(card) ==
    \E r \in LangRows({card} \cup Within(card, {"message", "reply"})) :
        dom[r[1]].rows[r[2]].text = <<>>

\* npcId === searchTerm, messageIds.includes(searchTerm): equality of strings
IdIs_Includes(id, searchTerm) == includes(id, searchTerm)
IdIs(id, searchTerm) == id = searchTerm

shouldShow(card, st) ==
    IF st.nullOnly THEN ContainsNullValue(card)
    ELSE IF st.term = <<>> THEN TRUE
    ELSE CASE st.type = "npc-id" -> IdIs(dom[card].id, st.term)
           [] st.type = "message-id" ->
                  \E m \in Within(card, {"message"}) : IdIs(dom[m].id, st.term)
           [] st.type = "reply-id" ->
                  \E r \in Within(card, {"reply"}) : IdIs(dom[r].id, st.term)
           [] st.type = "npc-name" -> searchInNPCNames(card, st.term, st)
           [] OTHER -> searchInText(card, st.term, st)

\* message.querySelectorAll('.lang-row'), reply.querySelectorAll('.lang-row'):
\* the rows of the element and of everything nested in it
elementHasMatch(e, st) ==
    AnyRowMatches({e} \cup Within(e, {"message", "reply"}), st.term, st)

\* reply.closest('.message')
closestMessage(reply) == dom[reply].parent

\* what the second branch leaves without the class hidden in a dialog
Unhidden(dialogContainer, st) ==
    LET msgs == Within(dialogContainer, {"message"})
        rpls == Within(dialogContainer, {"reply"})
        matchingMessages == {m \in msgs : elementHasMatch(m, st)}
        matchingReplies == {r \in rpls : elementHasMatch(r, st)}
    IN matchingMessages
         \cup {r \in rpls : \E m \in matchingMessages :
                                   dom[closestMessage(r)].id = dom[m].id}
         \cup matchingReplies
         \cup {closestMessage(r) : r \in matchingReplies}
hasAnyMatch(dialogContainer, st) ==
    \E e \in Within(dialogContainer, {"message", "reply"}) : elementHasMatch(e, st)

CardOf(i) == IF dom[i].kind = "card" THEN i
             ELSE CHOOSE c \in Enclosing(i) : dom[c].kind = "card"
DialogOf(i) == IF dom[i].kind = "dialog" THEN i
               ELSE CHOOSE d \in Enclosing(i) : dom[d].kind = "dialog"

\* which of the branches after card.classList.toggle runs for a card
Branch(card, st) ==
    LET textual == st.term # <<>> /\ st.type \in {"text", "npc-name"}
    IN IF ~shouldShow(card, st) THEN "none"
       ELSE IF st.showOnlyMatchDialogs /\ textual THEN "dialogs"
       ELSE IF st.showOnlyMatchMsgReply /\ textual THEN "msgreply"
       ELSE "all"

\* whether element i carries the class hidden after the loop over the cards
HiddenAfter(i, st) ==
    IF dom[i].kind = "card" THEN ~shouldShow(i, st)
    ELSE LET branch == Branch(CardOf(i), st)
         IN CASE branch = "none" -> i \in hidden
              [] branch = "dialogs" ->
                     IF dom[i].kind = "dialog"
                     THEN ~dialogTreeContainsMatch(i, st.term, st)
                     ELSE i \in hidden
              [] branch = "msgreply" ->
                     IF dom[i].kind = "dialog" THEN ~hasAnyMatch(i, st)
                     ELSE i \notin Unhidden(DialogOf(i), st)
              [] OTHER -> FALSE

\* npcCards, in document order
npcCards == SelectSeq([i \in 1..Len(dom) |-> i], LAMBDA i : dom[i].kind = "card")

\* updateNavigationButtons, for the list and the index it finds
updateNavigationButtons(matches, index) ==
    [prevDisabled |-> index <= 0,
     nextDisabled |-> index >= Len(matches) - 1,
     counter |-> IF Len(matches) > 0 THEN <<index + 1, Len(matches)>> ELSE <<0, 0>>,
     display |-> IF Len(matches) > 0 THEN "flex" ELSE "none"]

\* the class added to the element and left on the cards that had it
MarkCurrent_Keep(marked, element) == marked \cup {element}

\* scrollToMatch: the class current-match removed from every element that
\* has it and added to the element
MarkCurrent(marked, element) == {element}

\* the click on "Apply filters" (or Enter): performSearch with the controls
\* holding the raw input and the settings st; it ends with
\* updateNavigationButtons() and, if there is a match, scrollToMatch(0)
performSearch(input, st0) ==
    LET st == [st0 EXCEPT !.term = trim(toLowerCase(input))]
        matches == SelectSeq(npcCards, LAMBDA c : shouldShow(c, st))
    IN /\ currentSearchState' = st
       /\ hidden' = {i \in Elements : HiddenAfter(i, st)}
       /\ searchMatches' = matches
       /\ currentMatchIndex' = IF Len(matches) > 0 THEN 0 ELSE -1
       /\ currentMatch' = IF Len(matches) > 0 THEN MarkCurrent({}, matches[1]) ELSE {}
       /\ nav' = updateNavigationButtons(matches, IF Len(matches) > 0 THEN 0 ELSE -1)

\* prevMatchBtn click
PrevMatch ==
    /\ pc = "filtered"
    /\ currentMatchIndex > 0
    /\ currentMatchIndex' = currentMatchIndex - 1
    /\ currentMatch' = MarkCurrent(currentMatch, searchMatches[currentMatchIndex])
    /\ nav' = updateNavigationButtons(searchMatches, currentMatchIndex - 1)
    /\ UNCHANGED <<variant, pc, raised, dataVars, renderVars, metaVars, xliffVars, jsonVars,
                   dom, hidden, searchMatches, currentSearchState, workerVars, threadVars>>

\* nextMatchBtn click
NextMatch ==
    /\ pc = "filtered"
    /\ currentMatchIndex < Len(searchMatches) - 1
    /\ currentMatchIndex' = currentMatchIndex + 1
    /\ currentMatch' = MarkCurrent(currentMatch, searchMatches[currentMatchIndex + 2])
    /\ nav' = updateNavigationButtons(searchMatches, currentMatchIndex + 1)
    /\ UNCHANGED <<variant, pc, raised, dataVars, renderVars, metaVars, xliffVars, jsonVars,
                   dom, hidden, searchMatches, currentSearchState, workerVars, threadVars>>

\* what the user can type and tick
Inputs ==
    {<<>>, cat, <<" ", "C", "a", "t">>, <<"c", "a", "t", "*">>, <<"f", "r">>,
     <<"n", "u", "l", "l">>, <<"e">>, <<"1">>, <<"1", "1">>, <<"2">>}
LangChoices == {Langs, {"fr"}, {"en"}, {}}
Settings ==
    [term : {<<>>}, type : SearchTypes, nullOnly : BOOLEAN, exactMatch : BOOLEAN,
     ignoreDiacritics : BOOLEAN, useWildcards : BOOLEAN,
     showOnlyMatchDialogs : BOOLEAN, showOnlyMatchMsgReply : BOOLEAN,
     searchLangs : LangChoices]

\* the first search after the page was loaded
Search ==
    /\ pc = "page"
    /\ \E input \in Inputs, st \in Settings : performSearch(input, st)
    /\ pc' = "filtered"
    /\ UNCHANGED <<variant, raised, dataVars, renderVars, metaVars, xliffVars, jsonVars,
                   dom, workerVars, threadVars>>

\* no pipeline is running
Idle ==
    /\ raised = FALSE
    /\ npcs = <<>> /\ npcOrder = <<>> /\ messages = <<>> /\ replies = <<>>
    /\ dialogs = <<>> /\ metadata = <<>>
    /\ npcQueue = <<>> /\ curNpc = 0 /\ dlgIdx = 0 /\ stack = <<>> /\ out = <<>>
    /\ run = 0 /\ html1 = <<>>
    /\ xliffFiles = <<>> /\ xliffDone = <<>> /\ xliff_translations = <<>>
    /\ reply_relationships = <<>> /\ structFile = <<>>
    /\ files = <<>>

\* DOMContentLoaded: nothing hidden, no match, the default settings
PageLoaded(docs) ==
    /\ variant = "fixed"
    /\ pc = "page"
    /\ Idle
    /\ dom \in docs
    /\ hidden = {}
    /\ searchMatches = <<>>
    /\ currentMatch = {}
    /\ nav = updateNavigationButtons(<<>>, -1)
    /\ currentMatchIndex = -1
    /\ currentSearchState = DefaultSearchState
    /\ env = <<>>
    /\ sys_stdout = Console
    /\ threads = <<>>
    /\ gui = <<>>

InitSearch == PageLoaded(Docs)
NextSearch == Search \/ PrevMatch \/ NextMatch
SpecSearch == InitSearch /\ [][NextSearch]_vars

\* two searches one after the other, the second over what the first left
\* hidden
FilterInputs == {cat, xx}
FilterSettings ==
    [term : {<<>>}, type : {"text", "npc-name"}, nullOnly : {FALSE}, exactMatch : BOOLEAN,
     ignoreDiacritics : {FALSE}, useWildcards : {FALSE},
     showOnlyMatchDialogs : BOOLEAN, showOnlyMatchMsgReply : BOOLEAN,
     searchLangs : {Langs, {"en"}}]

Filter(from, to) ==
    /\ pc = from
    /\ \E input \in FilterInputs, st \in FilterSettings : performSearch(input, st)
    /\ pc' = to
    /\ UNCHANGED <<variant, raised, dataVars, renderVars, metaVars, xliffVars, jsonVars,
                   dom, workerVars, threadVars>>
FirstFilter == Filter("page", "narrowed")
Refilter == Filter("narrowed", "refiltered")

InitRefilter == PageLoaded(Docs)
NextRefilter == FirstFilter \/ Refilter
SpecRefilter == InitRefilter /\ [][NextRefilter]_vars

\* a user who, after the search, keeps clicking "next" as long as the button
\* responds
NextNav == Search \/ NextMatch
SpecNav == InitSearch /\ [][NextNav]_vars /\ WF_vars(NextMatch)

-----------------------------------------------------------------------------
(* Claims about the search *)

\* the cards the last search left visible
ShownCards == {c \in ElementsOf("card") : c \notin hidden}
Searched == pc \in {"filtered", "narrowed", "refiltered"}

\* the search was a text search in at least one language over the card whose
\* message reads "category"
CategorySearch ==
    /\ Searched
    /\ dom = DocCategory
    /\ currentSearchState.type = "text"
    /\ ~currentSearchState.nullOnly
    /\ currentSearchState.searchLangs # {}

\* C11: on the text "category" the term "cat" matches exactly when exactMatch
\* is off, and the term "cat*" with useWildcards on matches whether exactMatch
\* is on or off.
C11_WholeWordAndWildcard ==
    CategorySearch =>
        /\ currentSearchState.term = cat =>
               (1 \in ShownCards <=> ~currentSearchState.exactMatch)
        /\ (currentSearchState.term = <<"c", "a", "t", "*">>
               /\ currentSearchState.useWildcards) => 1 \in ShownCards

\* the language fields a search of the given type looks at in a card: the
\* names, and for a free-text search the message and reply texts as well
InScope(card, type) ==
    LangRows(IF type = "npc-name" THEN {card}
             ELSE {card} \cup Within(card, {"message", "reply"}))

\* the term matches the text of a field: the field has a text, its language is
\* selected, and the text itself (no label, no marker) satisfies the test
FieldMatches(r, st) ==
    LET row == dom[r[1]].rows[r[2]]
    IN /\ row.text # <<>>
       /\ row.lang \in st.searchLangs
       /\ TextMatches(toLowerCase(row.text), st.term, st)

TextSearch ==
    /\ Searched
    /\ ~currentSearchState.nullOnly
    /\ currentSearchState.term # <<>>
    /\ currentSearchState.type \in {"text", "npc-name"}

\* C12: after a free-text or name search with a non-empty term a card is shown
\* exactly when the term matches the text of a field of a selected language
\* on an in-scope node; labels, missing-value markers and unselected
\* languages never make a match.
C12_ShownIffFieldMatches ==
    TextSearch =>
        \A c \in ElementsOf("card") :
            c \in ShownCards <=>
                \E r \in InScope(c, currentSearchState.type) :
                    FieldMatches(r, currentSearchState)

IdSearch ==
    /\ Searched
    /\ ~currentSearchState.nullOnly
    /\ currentSearchState.term # <<>>
    /\ currentSearchState.type \in {"npc-id", "message-id", "reply-id"}

\* the id attributes a search of the given type compares with the term
IdsInCard(c, type) ==
    CASE type = "npc-id" -> {dom[c].id}
      [] type = "message-id" -> {dom[m].id : m \in Within(c, {"message"})}
      [] type = "reply-id" -> {dom[r].id : r \in Within(c, {"reply"})}

\* C13: after an npc-id, message-id or reply-id search with a non-empty term a
\* card is shown exactly when the term equals, character for character, the
\* card's npc id, or the id of a message or of a reply inside the card; the
\* settings exactMatch, ignoreDiacritics, useWildcards and searchLangs have no
\* influence.
C13_IdEquality ==
    IdSearch =>
        \A c \in ElementsOf("card") :
            c \in ShownCards <=>
                currentSearchState.term \in IdsInCard(c, currentSearchState.type)

\* a message-id search for "1" with every text setting switched on and no
\* language selected shows the card holding message 1 and hides the card
\* holding message 11
C13_Witness ==
    /\ IdSearch
    /\ dom = DocCards
    /\ currentSearchState.type = "message-id"
    /\ currentSearchState.term = <<"1">>
    /\ currentSearchState.exactMatch
    /\ currentSearchState.ignoreDiacritics
    /\ currentSearchState.useWildcards
    /\ currentSearchState.searchLangs = {}
    /\ ShownCards = {5}

\* the dialogs, messages and replies inside the shown cards
InsideShownCards ==
    {i \in Elements : dom[i].kind # "card" /\ CardOf(i) \in ShownCards}

NullOnlySearch == Searched /\ currentSearchState.nullOnly

\* C14: with "Show NULL values only" the shown cards are exactly the cards
\* that contain a missing-value marker, whatever the term, the type and the
\* other toggles, and nothing inside a shown card is hidden because of the
\* term.
C14_NullOnlyIgnoresTerm ==
    NullOnlySearch =>
        /\ ShownCards = {c \in ElementsOf("card") : ContainsNullValue(c)}
        /\ InsideShownCards \cap hidden = {}

\* an element is visible when neither it nor an element around it is hidden
Visible(i) == i \notin hidden /\ Enclosing(i) \cap hidden = {}

\* a field of the element itself matches the term
OwnFieldMatches(e, st) == \E r \in LangRows({e}) : FieldMatches(r, st)

\* the messages and replies the message/reply filter is to leave visible
DirectCounterparts(e, st) ==
    \/ OwnFieldMatches(e, st)
    \/ dom[e].kind = "reply" /\ OwnFieldMatches(closestMessage(e), st)
    \/ /\ dom[e].kind = "message"
       /\ \E r \in ElementsOf("reply") : closestMessage(r) = e /\ OwnFieldMatches(r, st)

MsgReplySearch ==
    /\ TextSearch
    /\ currentSearchState.type = "text"
    /\ currentSearchState.showOnlyMatchMsgReply
    /\ ~currentSearchState.showOnlyMatchDialogs

\* C15: with the message/reply filter and a non-empty free-text term, in every
\* shown dialog the visible messages and replies are exactly those whose own
\* fields match, the direct replies of a matching message and the parent
\* message of a matching reply; all others are hidden.
C15_OnlyDirectCounterparts ==
    MsgReplySearch =>
        \A d \in ElementsOf("dialog") :
            Visible(d) =>
                \A e \in Within(d, {"message", "reply"}) :
                    Visible(e) <=> DirectCounterparts(e, currentSearchState)

DialogSearch ==
    /\ TextSearch
    /\ currentSearchState.showOnlyMatchDialogs

\* a field of a selected language inside the dialog's tree matches the term
TreeFieldMatches(d, st) ==
    \E r \in LangRows(Within(d, {"message", "reply"})) : FieldMatches(r, st)

\* C16: with the dialog filter and a non-empty free-text or name term, in
\* every shown card a dialog is visible exactly when a field inside its tree
\* matches; the other dialogs are hidden as a whole and a matching dialog is
\* visible with all its messages and replies.
C16_MatchingDialogsFullyVisible ==
    DialogSearch =>
        \A d \in ElementsOf("dialog") :
            CardOf(d) \in ShownCards =>
                /\ Visible(d) <=> TreeFieldMatches(d, currentSearchState)
                /\ Visible(d) => \A e \in Within(d, {"message", "reply"}) : Visible(e)

\* C17: "next" steps through the matching cards in document order and wraps
\* around from the last one to the first, so a user who keeps clicking "next"
\* comes back to every match again and again.
C17_NextCyclesThroughMatches ==
    \A k \in 0..2 :
        [](Searched /\ Len(searchMatches) > k => <>(currentMatchIndex = k))

-----------------------------------------------------------------------------
(* The generation worker of the GUI (generate_html_threaded, run_generation) *)

\* what can go wrong in a run, by the step it goes wrong in
ValidationFaults(use_xliff) ==
    {"json_folder", "required_file", "output_folder"}
        \cup (IF use_xliff THEN {"xliff_folder", "xliff_file"} ELSE {})
\* a data file that exists but cannot be parsed
LoadFaults(use_xliff) ==
    {"metadata", "dialogs"} \cup (IF use_xliff THEN {"translations", "structure"} ELSE {"entities"})
\* the output file cannot be written
GenerateFaults == {"write"}
\* no NPC was loaded: the percentage of line 3746 divides by zero
StatisticsFaults(v) == IF v = "fixed" THEN {"no_npcs"} ELSE {}
Faults(v, use_xliff) ==
    {"none"} \cup ValidationFaults(use_xliff) \cup LoadFaults(use_xliff)
        \cup GenerateFaults \cup StatisticsFaults(v)

\* load_data: the faults it handles itself (it prints a line and goes on),
\* all others leave it as an exception
\*  - _load_metadata and _load_xliff_translations catch Exception and print
\*  - the first file's _load_npcs/_load_messages/_load_replies do too, the
\*    second file's print and re-raise
\*  - _load_dialogs and _load_structure_from_json raise in both
LoadDataSwallows(v, fault) ==
    \/ fault \in {"metadata", "translations"}
    \/ fault = "entities" /\ v = "orig"

\* log_message
Log(line) == [gui EXCEPT !.log = Append(@, line)]

\* threading.Thread(target=run_generation).start()
StartWorker ==
    /\ pc = "idle"
    /\ pc' = "validate"
    /\ UNCHANGED <<variant, raised, dataVars, renderVars, metaVars, xliffVars, jsonVars,
                   searchVars, workerVars, threadVars>>

\* self.validate_inputs(); generate_button disabled, progress started
ValidateInputs ==
    /\ pc = "validate"
    /\ IF env.fault \in ValidationFaults(env.use_xliff)
       THEN /\ raised' = TRUE
            /\ gui' = gui
            /\ pc' = "except"
       ELSE /\ raised' = raised
            /\ gui' = [Log("validated") EXCEPT !.button = "disabled", !.progress = TRUE]
            /\ pc' = "load"
    /\ UNCHANGED <<variant, dataVars, renderVars, metaVars, xliffVars, jsonVars,
                   searchVars, env, threadVars>>

\* mapper.load_data() and the logging of what it printed
LoadData ==
    /\ pc = "load"
    /\ IF env.fault \in LoadFaults(env.use_xliff)
       THEN IF LoadDataSwallows(variant, env.fault)
            THEN /\ raised' = raised
                 /\ gui' = Log("Error loading")
                 /\ pc' = "generate"
            ELSE /\ raised' = TRUE
                 /\ gui' = gui
                 /\ pc' = "except"
       ELSE /\ raised' = raised
            /\ gui' = Log("loaded")
            /\ pc' = "generate"
    /\ UNCHANGED <<variant, dataVars, renderVars, metaVars, xliffVars, jsonVars,
                   searchVars, env, threadVars>>

\* mapper.generate_html(output_path)
GenerateHtml ==
    /\ pc = "generate"
    /\ IF env.fault \in GenerateFaults
       THEN /\ raised' = TRUE
            /\ gui' = Log("Generating HTML file")
            /\ pc' = "except"
       ELSE /\ raised' = raised
            /\ gui' = [Log("Generating HTML file") EXCEPT !.written = TRUE]
            /\ pc' = "statistics"
    /\ UNCHANGED <<variant, dataVars, renderVars, metaVars, xliffVars, jsonVars,
                   searchVars, env, threadVars>>

\* the statistics, their log lines and the "Success" dialog
Statistics ==
    /\ pc = "statistics"
    /\ IF env.fault \in StatisticsFaults(variant)
       THEN /\ raised' = TRUE
            /\ gui' = Log("GENERATION COMPLETE - STATISTICS")
            /\ pc' = "except"
       ELSE /\ raised' = raised
            /\ gui' = [Log("GENERATION COMPLETE - STATISTICS") EXCEPT !.box = "Success"]
            /\ pc' = "finally"
    /\ UNCHANGED <<variant, dataVars, renderVars, metaVars, xliffVars, jsonVars,
                   searchVars, env, threadVars>>

\* except Exception as e: the ERROR line and the error dialog
ExceptHandler == [Log("ERROR") EXCEPT !.box = "Error"]
HandleException ==
    /\ pc = "except"
    /\ gui' = ExceptHandler
    /\ pc' = "finally"
    /\ UNCHANGED <<variant, raised, dataVars, renderVars, metaVars, xliffVars, jsonVars,
                   searchVars, env, threadVars>>

\* finally: progress stopped, button enabled
Finally ==
    /\ pc = "finally"
    /\ gui' = [gui EXCEPT !.button = "normal", !.progress = FALSE]
    /\ pc' = "done"
    /\ UNCHANGED <<variant, raised, dataVars, renderVars, metaVars, xliffVars, jsonVars,
                   searchVars, env, threadVars>>

InitWorker ==
    /\ variant \in {"fixed", "orig"}
    /\ pc = "idle"
    /\ Idle
    /\ dom = <<>>
    /\ hidden = {}
    /\ searchMatches = <<>>
    /\ currentMatch = {}
    /\ nav = <<>>
    /\ currentMatchIndex = -1
    /\ currentSearchState = <<>>
    /\ \E use_xliff \in BOOLEAN :
          \E fault \in Faults(variant, use_xliff) :
              env = [use_xliff |-> use_xliff, fault |-> fault]
    /\ sys_stdout = Console
    /\ threads = <<>>
    /\ gui = [log |-> <<>>, box |-> "none", button |-> "normal", progress |-> FALSE,
              written |-> FALSE]

NextWorker ==
    \/ StartWorker
    \/ ValidateInputs
    \/ LoadData
    \/ GenerateHtml
    \/ Statistics
    \/ HandleException
    \/ Finally
SpecWorker == InitWorker /\ [][NextWorker]_vars

\* the run ended in the error outcome
ErrorOutcome ==
    /\ gui.box = "Error"
    /\ \E i \in 1..Len(gui.log) : gui.log[i] = "ERROR"

\* C18: every failure inside the worker (validation, load_data, generate_html,
\* statistics) ends the run in the error outcome, an ERROR log line and the
\* error dialog; no failing run ends silently or with the success dialog.
C18_FailuresAreReported ==
    (pc = "done" /\ env.fault # "none") => ErrorOutcome

-----------------------------------------------------------------------------
(* Claims about the dialog tree and the relationships *)

\* the visited set a call of _generate_dialog_tree works with: on entry the
\* messages around the reply that led to it, afterwards those and its own
PathVisited(f) ==
    IF f.stage = "enter"
    THEN IF f.parent = 0 THEN {} ELSE PathMessages(f.parent)
    ELSE PathMessages(f.node) \cup {f.message_id}

LoadedNpcs == {<<1, 2>>, <<1>>, <<2>>}
LoadedMessages == {MsgIds, {1}, {0, 2}}

InitBuild ==
    /\ variant \in {"fixed", "orig"}
    /\ pc = "build"
    /\ raised = FALSE
    /\ dom = <<>>
    /\ hidden = {}
    /\ searchMatches = <<>>
    /\ currentMatch = {}
    /\ nav = <<>>
    /\ currentMatchIndex = -1
    /\ currentSearchState = <<>>
    /\ env = <<>>
    /\ sys_stdout = Console
    /\ threads = <<>>
    /\ gui = <<>>
    /\ npcOrder \in LoadedNpcs
    /\ npcs = [n \in Range(npcOrder) |-> NewNPC(RenderNpcName(n))]
    /\ \E ms \in LoadedMessages : messages = [m \in ms |-> NewMessage]
    /\ replies \in {s \in SeqsOf(NumReplies, ReplyRecords) :
                       \A i \in 1..Len(s) : s[i].leads_to_message_id = None}
    /\ dialogs \in SeqsOf(Cardinality(DialogIdx), DialogRecords)
    /\ metadata = <<>>
    /\ npcQueue = <<>>
    /\ curNpc = 0
    /\ dlgIdx = 0
    /\ stack = <<>>
    /\ out = <<>>
    /\ run = 0
    /\ html1 = <<>>
    /\ xliffFiles = <<>>
    /\ xliffDone = <<>>
    /\ xliff_translations = <<>>
    /\ reply_relationships = <<>>
    /\ structFile = <<>>
    /\ files = <<>>

SpecBuild == InitBuild /\ [][BuildRelationships]_vars

\* where x stands in the list s
Pos(s, x) == CHOOSE i \in 1..Len(s) : s[i] = x
\* the places <<NPC, position>> at which dialog d stands in a dialog list, and
\* the places <<message, position>> at which reply r stands in a reply list
DialogPlaces(d) ==
    {p \in (DOMAIN npcs) \X (1..Len(dialogs)) :
        p[2] <= Len(npcs[p[1]].dialogs) /\ npcs[p[1]].dialogs[p[2]] = d}
ReplyPlaces(r) ==
    {p \in (DOMAIN messages) \X (1..Len(replies)) :
        p[2] <= Len(messages[p[1]].replies) /\ messages[p[1]].replies[p[2]] = r}

Built == pc = "html"

\* C20: after _build_relationships a dialog is in an NPC's list exactly when
\* its npc_id is that NPC's id and a reply is in a message's list exactly when
\* its parent_message_id is that message's id; every linked item is in one
\* list, once; the replies of a message stand in insertion order; a dialog of
\* an unknown NPC and a reply of an unknown message are in no list, and
\* nothing is raised.
C20_RelationshipsLinked ==
    Built =>
        /\ ~raised
        /\ \A d \in Range(dialogs) :
              /\ \A n \in DOMAIN npcs :
                    d \in Range(npcs[n].dialogs) <=> d.npc_id = n
              /\ Cardinality(DialogPlaces(d)) = (IF d.npc_id \in DOMAIN npcs THEN 1 ELSE 0)
        /\ \A r \in Range(replies) :
              /\ \A m \in DOMAIN messages :
                    r \in Range(messages[m].replies) <=> r.parent_message_id = m
              /\ Cardinality(ReplyPlaces(r)) =
                    (IF r.parent_message_id \in DOMAIN messages THEN 1 ELSE 0)
        /\ \A m \in DOMAIN messages :
              \A i, j \in 1..Len(messages[m].replies) :
                  i < j => Pos(replies, messages[m].replies[i])
                             < Pos(replies, messages[m].replies[j])

\* a dialog of an NPC that was not loaded, a reply below a message that was
\* not loaded, and a message with two replies
C20_Witness ==
    /\ Built
    /\ \E d \in Range(dialogs) : d.npc_id \notin DOMAIN npcs
    /\ \E d \in Range(dialogs) : d.npc_id \in DOMAIN npcs
    /\ \E i, j \in 1..Len(replies) :
          /\ replies[i].parent_message_id \notin DOMAIN messages
          /\ replies[j].parent_message_id \in DOMAIN messages
    /\ ~raised

-----------------------------------------------------------------------------
(* Claims about the order and the attributes of the rendered nodes *)

\* the dialog record a dialog block was rendered from, and its place in the file
DialogOfBlock(i) == CHOOSE d \in Range(dialogs) : d.dialog_id = out[i].id
FilePlace(i) == Pos(dialogs, DialogOfBlock(i))

\* C21: in every card the dialog blocks stand in non-decreasing check_order,
\* whatever the order of the records in the file, and blocks of equal
\* check_order stand in the order of the file.
C21_DialogsByCheckOrder ==
    \A i, j \in NodesOf("dialog") :
        (i < j /\ out[i].parent = out[j].parent) =>
            \/ DialogOfBlock(i).check_order < DialogOfBlock(j).check_order
            \/ /\ DialogOfBlock(i).check_order = DialogOfBlock(j).check_order
               /\ FilePlace(i) < FilePlace(j)

\* a card whose two dialog blocks stand in the reverse of the file's order
C21_Witness ==
    /\ pc = "done"
    /\ \E i, j \in NodesOf("dialog") :
          /\ i < j
          /\ out[i].parent = out[j].parent
          /\ FilePlace(j) < FilePlace(i)
          /\ DialogOfBlock(i).check_order < DialogOfBlock(j).check_order

\* the reply nodes around node i
RepliesAround(i) == {a \in Ancestors(i) : out[a].kind = "reply"}

\* C22: the stored depth follows the level rule: the entry message has depth
\* 0, a reply has the depth of its message plus 1, a continuation message or
\* its reference marker stands at the depth of the reply that leads to it
\* plus 1; so a message has the even depth twice the number of replies on its
\* path and a reply an odd depth.
C22_DepthFollowsLevel ==
    /\ \A i \in NodesOf("message") \cup NodesOf("ref") :
          /\ out[out[i].parent].kind = "dialog" => out[i].depth = 0
          /\ out[out[i].parent].kind = "reply" => out[i].depth = out[out[i].parent].depth + 1
          /\ out[i].depth = 2 * Cardinality(RepliesAround(i))
    /\ \A i \in NodesOf("reply") :
          /\ out[out[i].parent].kind = "message"
          /\ out[i].depth = out[out[i].parent].depth + 1
          /\ out[i].depth % 2 = 1

\* a continuation message at depth 2 with a reply of its own at depth 3
C22_Witness ==
    /\ pc = "done"
    /\ \E i \in NodesOf("reply") :
          /\ out[i].depth = 3
          /\ out[out[i].parent].depth = 2
          /\ out[out[out[i].parent].parent].depth = 1

\* Datasets for deep trees: NPC 1 has a dialog that enters a chain of n
\* messages, message k leading through reply 100 + k to message k + 1; the
\* last reply leads nowhere or back to a message of the chain.  A second
\* dialog has no entry message.
ChainReply(k, leads) ==
    [reply_id |-> 100 + k, parent_message_id |-> k, leads_to_message_id |-> leads]
ChainReplies(n, last) ==
    [k \in 1..n |-> ChainReply(k, IF k < n THEN k + 1 ELSE last)]

InitChain ==
    /\ variant = "fixed"
    /\ pc = "build"
    /\ raised = FALSE
    /\ dom = <<>>
    /\ hidden = {}
    /\ searchMatches = <<>>
    /\ currentMatch = {}
    /\ nav = <<>>
    /\ currentMatchIndex = -1
    /\ currentSearchState = <<>>
    /\ env = <<>>
    /\ sys_stdout = Console
    /\ threads = <<>>
    /\ gui = <<>>
    /\ npcs = [n \in NpcIds |-> NewNPC(RenderNpcName(n))]
    /\ npcOrder = <<1, 2>>
    /\ \E n \in 1..ChainLen :
          /\ messages = [m \in 1..n |-> NewMessage]
          /\ \E last \in {None} \cup (1..n) : replies = ChainReplies(n, last)
          /\ dialogs = <<[dialog_id |-> 101, npc_id |-> 1, message_id |-> 1, check_order |-> 0],
                         [dialog_id |-> 102, npc_id |-> 1, message_id |-> n + 1,
                          check_order |-> 1]>>
    /\ metadata = <<>>
    /\ npcQueue = <<>>
    /\ curNpc = 0
    /\ dlgIdx = 0
    /\ stack = <<>>
    /\ out = <<>>
    /\ run = 0
    /\ html1 = <<>>
    /\ xliffFiles = <<>>
    /\ xliffDone = <<>>
    /\ xliff_translations = <<>>
    /\ reply_relationships = <<>>
    /\ structFile = <<>>
    /\ files = <<>>

SpecChain == InitChain /\ [][NextFixed]_vars

\* C23: for every message and reply node the visual indentation level is
\* min(stored depth, 15): it never exceeds 15 while the stored depth keeps the
\* true level, and the depth badge is there exactly when the stored depth is
\* greater than 15.
C23_IndentationCapped ==
    \A i \in NodesOf("message") \cup NodesOf("reply") :
        /\ out[i].vis = (IF out[i].depth < 15 THEN out[i].depth ELSE 15)
        /\ out[i].vis <= 15
        /\ out[i].depth = 2 * Cardinality(RepliesAround(i))
                             + (IF out[i].kind = "reply" THEN 1 ELSE 0)
        /\ out[i].badge <=> out[i].depth > 15

\* a message at depth 16 with its reply at depth 17, both indented by 15 and
\* carrying the badge, below a reply at depth 15 without badge
C23_Witness ==
    /\ pc = "done"
    /\ \E i \in NodesOf("reply") :
          /\ out[i].depth = 17 /\ out[i].vis = 15 /\ out[i].badge
          /\ out[out[i].parent].depth = 16
          /\ out[out[i].parent].vis = 15
          /\ out[out[i].parent].badge
          /\ out[out[out[i].parent].parent].depth = 15
          /\ ~out[out[out[i].parent].parent].badge

\* the values node i exposes under an attribute name
AttributeValues(i, name) == {a[2] : a \in {b \in out[i].attrs : b[1] = name}}

\* node i has an attribute, other than its own id and its depth, whose value
\* is the message the reply continues to
ExposesContinuation(i) ==
    \E a \in out[i].attrs :
        /\ a[1] \notin {"data-reply-id", "data-depth"}
        /\ a[2] = out[i].leads

\* C24: every reply node exposes as attributes of the node its reply_id, its
\* depth and, whenever the reply has a leads_to_message_id, that continuation
\* message id; every message node exposes its message_id and its depth.
C24_NodesExposeJoinKeys ==
    /\ \A i \in NodesOf("message") :
          /\ AttributeValues(i, "data-message-id") = {out[i].id}
          /\ AttributeValues(i, "data-depth") = {out[i].depth}
    /\ \A i \in NodesOf("reply") :
          /\ AttributeValues(i, "data-reply-id") = {out[i].id}
          /\ AttributeValues(i, "data-depth") = {out[i].depth}
          /\ out[i].leads # None => ExposesContinuation(i)

-----------------------------------------------------------------------------
(* The French value of a unit: _clean_source_text on annotated sources     *)

\* longest source text of a unit, in tokens
MaxText == 4

\* the tokens of a source text: the brackets, "w" for the literal wait_mod_,
\* a letter and the blank
Tokens == {"[", "]", "w", "a", " "}
AnnotatedTexts == UNION {[1..n -> Tokens] : n \in 1..MaxText}

\* one translation file with one unit, the message 1, with any source text
InitClean ==
    /\ variant \in {"fixed", "orig"}
    /\ pc = "xliff"
    /\ raised = FALSE
    /\ dom = <<>>
    /\ hidden = {}
    /\ searchMatches = <<>>
    /\ currentMatch = {}
    /\ nav = <<>>
    /\ currentMatchIndex = -1
    /\ currentSearchState = <<>>
    /\ env = <<>>
    /\ sys_stdout = Console
    /\ threads = <<>>
    /\ gui = <<>>
    /\ npcs = <<>>
    /\ npcOrder = <<>>
    /\ messages = <<>>
    /\ replies = <<>>
    /\ dialogs = <<>>
    /\ metadata = <<>>
    /\ npcQueue = <<>>
    /\ curNpc = 0
    /\ dlgIdx = 0
    /\ stack = <<>>
    /\ out = <<>>
    /\ run = 0
    /\ html1 = <<>>
    /\ \E text \in AnnotatedTexts :
          xliffFiles = <<[lang |-> "en", present |-> TRUE,
                          units |-> <<[unit_id |-> [numeric |-> TRUE, entity_id |-> 1,
                                                    entry_type |-> "message"],
                                       source |-> text,
                                       target |-> TargetText("en", 1)]>>]>>
    /\ xliffDone = <<>>
    /\ xliff_translations = [npc_names |-> EmptyTable, messages |-> EmptyTable,
                             replies |-> EmptyTable]
    /\ reply_relationships = <<>>
    /\ structFile = <<>>
    /\ files = <<>>

SpecClean == InitClean /\ [][LoadXliffFile]_vars

\* position i of text lies in a bracketed segment: at or after a "[" and not
\* after the first "]" that follows this "["
InSegment(text, i) ==
    \E j \in 1..i : text[j] = "[" /\ FirstClose(text, j + 1) >= i

RECURSIVE KeepOutside(_, _)
\* the tokens of text from position i on that lie in no bracketed segment
KeepOutside(text, i) ==
    IF i > Len(text) THEN <<>>
    ELSE (IF InSegment(text, i) THEN <<>> ELSE <<text[i]>>) \o KeepOutside(text, i + 1)

\* C25: the French value stored for a unit is its source text without any
\* bracketed segment, wherever the segment stands and whatever its tag, and
\* without the surrounding blanks.
C25_AnnotationsRemoved ==
    \A i \in 1..Len(xliffDone) :
        LET source == xliffDone[i].units[1].source
        IN xliff_translations.messages.val[1]["fr"] = strip(KeepOutside(source, 1))

-----------------------------------------------------------------------------
(* Claims about repeated searches *)

\* whether a search with the settings st, run as the first one on a freshly
\* loaded page (no element carries the class hidden), leaves element i hidden
HiddenOnFreshPage(i, st) ==
    IF dom[i].kind = "card" THEN ~shouldShow(i, st)
    ELSE LET branch == Branch(CardOf(i), st)
         IN CASE branch = "dialogs" ->
                     dom[i].kind = "dialog" /\ ~dialogTreeContainsMatch(i, st.term, st)
              [] branch = "msgreply" ->
                     IF dom[i].kind = "dialog" THEN ~hasAnyMatch(i, st)
                     ELSE i \notin Unhidden(DialogOf(i), st)
              [] OTHER -> FALSE

\* C26: after any sequence of searches the hidden cards, dialog containers,
\* messages and replies are those the latest search would hide on a freshly
\* loaded page; nothing an earlier search hid stays hidden unless the latest
\* search hides it too.
C26_LatestSearchDecides ==
    Searched => hidden = {i \in Elements : HiddenOnFreshPage(i, currentSearchState)}

-----------------------------------------------------------------------------
(* Generation runs side by side: every click on "Generate HTML" starts a    *)
(* thread that runs run_generation; the button is disabled by the thread,  *)
(* after validate_inputs, and enabled again by the finally of any run.     *)
(* sys.stdout is a global of the process that each run rebinds.            *)

\* the threads the user can start
NumRuns == 2
Runs == 1..NumRuns

\* the buffer io.StringIO() of run t
Buffer(t) == t

SetRun(t, position) == [threads EXCEPT ![t].pc = position]

\* the click: generate_html_threaded starts the thread
StartThread(t) ==
    /\ pc = "gui"
    /\ gui.button = "normal"
    /\ threads[t].pc = "idle"
    /\ threads' = SetRun(t, "validate")
    /\ UNCHANGED <<variant, pc, raised, dataVars, renderVars, metaVars, xliffVars, jsonVars,
                   searchVars, workerVars, sys_stdout>>

\* self.validate_inputs() raises: the except clause, then the outer finally
ValidationFails(t) ==
    /\ threads[t].pc = "validate"
    /\ threads' = SetRun(t, "finally")
    /\ UNCHANGED <<variant, pc, raised, dataVars, renderVars, metaVars, xliffVars, jsonVars,
                   searchVars, workerVars, sys_stdout>>

\* self.validate_inputs() returns; generate_button disabled, progress started,
\* the mapper created
DisableButton(t) ==
    /\ threads[t].pc = "validate"
    /\ gui' = [gui EXCEPT !.button = "disabled", !.progress = TRUE]
    /\ threads' = SetRun(t, "save")
    /\ UNCHANGED <<variant, pc, raised, dataVars, renderVars, metaVars, xliffVars, jsonVars,
                   searchVars, env, sys_stdout>>

\* old_stdout = sys.stdout
SaveStdout(t) ==
    /\ threads[t].pc = "save"
    /\ threads' = [threads EXCEPT ![t].pc = "redirect", ![t].old_stdout = sys_stdout]
    /\ UNCHANGED <<variant, pc, raised, dataVars, renderVars, metaVars, xliffVars, jsonVars,
                   searchVars, workerVars, sys_stdout>>

\* sys.stdout = buffer = io.StringIO()
RedirectStdout(t) ==
    /\ threads[t].pc = "redirect"
    /\ sys_stdout' = Buffer(t)
    /\ threads' = SetRun(t, "work")
    /\ UNCHANGED <<variant, pc, raised, dataVars, renderVars, metaVars, xliffVars, jsonVars,
                   searchVars, workerVars>>

\* the inner try: load_data, the log of the buffer, generate_html; it ends
\* normally or by an exception, and the inner finally runs in both cases
LoadAndGenerate(t) ==
    /\ threads[t].pc = "work"
    /\ threads' = SetRun(t, "restore")
    /\ UNCHANGED <<variant, pc, raised, dataVars, renderVars, metaVars, xliffVars, jsonVars,
                   searchVars, workerVars, sys_stdout>>

\* finally: sys.stdout = old_stdout
RestoreStdout(t) ==
    /\ threads[t].pc = "restore"
    /\ sys_stdout' = threads[t].old_stdout
    /\ threads' = SetRun(t, "finally")
    /\ UNCHANGED <<variant, pc, raised, dataVars, renderVars, metaVars, xliffVars, jsonVars,
                   searchVars, workerVars>>

\* the statistics and the dialog, or the except clause; then the outer
\* finally: progress stopped, generate_button enabled
EnableButton(t) ==
    /\ threads[t].pc = "finally"
    /\ gui' = [gui EXCEPT !.button = "normal", !.progress = FALSE]
    /\ threads' = SetRun(t, "done")
    /\ UNCHANGED <<variant, pc, raised, dataVars, renderVars, metaVars, xliffVars, jsonVars,
                   searchVars, env, sys_stdout>>

InitThreads ==
    /\ variant \in {"fixed", "orig"}
    /\ pc = "gui"
    /\ Idle
    /\ dom = <<>>
    /\ hidden = {}
    /\ searchMatches = <<>>
    /\ currentMatch = {}
    /\ nav = <<>>
    /\ currentMatchIndex = -1
    /\ currentSearchState = <<>>
    /\ env = <<>>
    /\ gui = [log |-> <<>>, box |-> "none", button |-> "normal", progress |-> FALSE,
              written |-> FALSE]
    /\ sys_stdout = Console
    /\ threads = [t \in Runs |-> [pc |-> "idle", old_stdout |-> Console]]

NextThreads ==
    \E t \in Runs :
        \/ StartThread(t)
        \/ ValidationFails(t)
        \/ DisableButton(t)
        \/ SaveStdout(t)
        \/ RedirectStdout(t)
        \/ LoadAndGenerate(t)
        \/ RestoreStdout(t)
        \/ EnableButton(t)

SpecThreads == InitThreads /\ [][NextThreads]_vars

\* the runs that hold the redirection: past `sys.stdout = buffer` and not yet
\* past their `sys.stdout = old_stdout`
Redirecting == {t \in Runs : threads[t].pc \in {"work", "restore"}}

\* no run is between its start and its end
AllRunsFinished == \A t \in Runs : threads[t].pc \in {"idle", "done"}

\* C27: in every interleaving of the generation runs, a second click before
\* the first run disabled the button included, at most one run holds the
\* redirection of sys.stdout at a time, and once all the runs have finished
\* sys.stdout is the stream it was before the first run.
C27_StdoutRedirectionExclusive ==
    /\ Cardinality(Redirecting) <= 1
    /\ AllRunsFinished => sys_stdout = Console

-----------------------------------------------------------------------------
(* Claims about the outcome of a run and about the merge *)

\* the run ended in the success outcome
SuccessOutcome == gui.box = "Success"

\* C28: a run that loaded the data and wrote the HTML file without an
\* exception ends in the success outcome and never in the error outcome,
\* whatever was loaded, a dataset without any NPC included.
C28_WrittenRunSucceeds ==
    (pc = "done" /\ gui.written) => (SuccessOutcome /\ ~ErrorOutcome)

\* XLIFF mode from the translation file to the page: one translation file
\* with any of the units below, and a structural reply file that is empty or
\* holds the record of reply 1 only (under message 1, leading to message 0)
OrphanUnitIds ==
    <<[numeric |-> TRUE, entity_id |-> 1, entry_type |-> "name"],
      [numeric |-> TRUE, entity_id |-> 2, entry_type |-> "name"],
      [numeric |-> TRUE, entity_id |-> 0, entry_type |-> "message"],
      [numeric |-> TRUE, entity_id |-> 1, entry_type |-> "message"],
      [numeric |-> TRUE, entity_id |-> 1, entry_type |-> "reply"],
      [numeric |-> TRUE, entity_id |-> 2, entry_type |-> "reply"]>>
OrphanUnits(ids) ==
    LET chosen == SelectSeq(OrphanUnitIds, LAMBDA u : u \in ids)
    IN [i \in 1..Len(chosen) |->
           [unit_id |-> chosen[i], source |-> <<"b">>, target |-> TargetText("en", 1)]]
OrphanStructFiles ==
    {<<>>, <<[reply_id |-> 1, reply_parent_id |-> 1, reply_message_id |-> 0]>>}

\* load_data goes on from the merge to _build_relationships
MergedToBuild ==
    /\ pc = "merged"
    /\ pc' = "build"
    /\ UNCHANGED <<variant, raised, dataVars, renderVars, metaVars, xliffVars, jsonVars,
                   searchVars, workerVars, threadVars>>

InitOrphan ==
    /\ variant = "fixed"
    /\ pc = "xliff"
    /\ raised = FALSE
    /\ dom = <<>>
    /\ hidden = {}
    /\ searchMatches = <<>>
    /\ currentMatch = {}
    /\ nav = <<>>
    /\ currentMatchIndex = -1
    /\ currentSearchState = <<>>
    /\ env = <<>>
    /\ sys_stdout = Console
    /\ threads = <<>>
    /\ gui = <<>>
    /\ npcs = <<>>
    /\ npcOrder = <<>>
    /\ messages = <<>>
    /\ replies = <<>>
    /\ dialogs = <<>>
    /\ metadata = <<>>
    /\ npcQueue = <<>>
    /\ curNpc = 0
    /\ dlgIdx = 0
    /\ stack = <<>>
    /\ out = <<>>
    /\ run = 0
    /\ html1 = <<>>
    /\ \E ids \in SUBSET Range(OrphanUnitIds) :
          xliffFiles = <<[lang |-> "en", present |-> TRUE, units |-> OrphanUnits(ids)]>>
    /\ xliffDone = <<>>
    /\ xliff_translations = [npc_names |-> EmptyTable, messages |-> EmptyTable,
                             replies |-> EmptyTable]
    /\ reply_relationships = <<>>
    /\ structFile \in OrphanStructFiles
    /\ files = <<>>

NextOrphan ==
    \/ LoadXliffFile
    \/ XliffLoaded
    \/ LoadStructure
    \/ MergeXliff
    \/ MergedToBuild
    \/ NextFixed

SpecOrphan == InitOrphan /\ [][NextOrphan]_vars

\* the reply ids the structural reply file has a record for
StructuralReplyIds == {structFile[i].reply_id : i \in 1..Len(structFile)}

\* the replies that have a translation entry and no structural record
Orphans == {r \in Range(replies) : r.reply_id \notin StructuralReplyIds}

\* C29: in XLIFF mode a reply with a translation entry and no record in the
\* structural reply file is in the reply list of no message and is rendered
\* nowhere, whatever messages are loaded, a message with the id 0 included.
C29_OrphanRepliesUnattached ==
    \A r \in Orphans :
        /\ \A m \in DOMAIN messages : r \notin Range(messages[m].replies)
        /\ \A i \in NodesOf("reply") : out[i].id # r.reply_id

-----------------------------------------------------------------------------
(* Searches and navigation in any order *)

BrowseInputs == {<<>>, cat, xx}

\* applyFiltersBtn click, on the fresh page or after other searches and steps
ApplyFilters ==
    /\ pc \in {"page", "filtered"}
    /\ \E input \in BrowseInputs, st \in FilterSettings : performSearch(input, st)
    /\ pc' = "filtered"
    /\ UNCHANGED <<variant, raised, dataVars, renderVars, metaVars, xliffVars, jsonVars,
                   dom, workerVars, threadVars>>

NextBrowse == ApplyFilters \/ PrevMatch \/ NextMatch
SpecBrowse == InitSearch /\ [][NextBrowse]_vars

=============================================================================
